---- MODULE Spec2Model ----
(***************************************************************************)
(* max2sc: signal-flow graph construction and analysis                     *)
(* (crates/max2sc-analyzer/src/graph.rs) over Max patches                  *)
(* (crates/max2sc-max-types/src/patch.rs).                                 *)
(*                                                                         *)
(* Conventions                                                             *)
(*  - A Rust String is a sequence of one-character strings, so that        *)
(*    starts_with and contains are computed and not assumed. Box ids and   *)
(*    maxclass names are only ever compared for equality and stay atoms.   *)
(*  - Option<String> is [some, val]; None is [some |-> FALSE, val |-> <<>>]*)
(*  - A serde_json::Value is [t, s, n, elems]: t is the JSON kind, s the   *)
(*    string payload, n the u64 payload, elems the array payload.          *)
(*  - A u64 is four little-endian 16-bit limbs and a u32 two of them, so   *)
(*    that values of 2^32 and above exist in the model and the cast        *)
(*    `as u32` is the truncation the hardware performs.                    *)
(*  - petgraph NodeIndex / EdgeIndex i is position i+1 of graph.nodes /    *)
(*    graph.edges.                                                         *)
(***************************************************************************)
EXTENDS Integers, Sequences, FiniteSets, TLC

VARIABLES
    patch,      \* the MaxPatch handed to build_from_patch: [boxes, lines]
    self,       \* the receiver SignalFlowGraph of build_from_patch
    graph,      \* the local graph of build_signal_flow_graph
    node_map,   \* the local HashMap<String, NodeIndex>
    k,          \* number of patch lines consumed by the second pass
    pc,         \* position: "call" | "lines" | "returned" | "analyzed" in the graph calls
    ret,        \* "none" | "Ok" | "InvalidRouting" | "panic"
    sources,    \* result of get_audio_sources(self)
    sinks,      \* result of get_audio_sinks(self)
    chains,     \* result of analyze_signal_chains(self)
    osc_config, \* the Option<&OSCConfig> handed to analyze_spatial_config
    config,     \* the SpatialConfig analyze_spatial_config returned
    call,       \* a call into a converter: [fn, its arguments by name]
    overflow_checks,    \* whether the build checks integer overflow
    result,     \* what the converter call returned
    search,     \* the loops of analyze_signal_chains and the path iterator
    fs          \* the files and directories a run of the converter touches

vars == <<patch, self, graph, node_map, k, pc, ret, sources, sinks, chains,
          osc_config, config, call, overflow_checks, result, search, fs>>

\* what a call of build_from_patch and the graph analysis leave alone
beyond_graph == <<osc_config, config, call, overflow_checks, result, search, fs>>

\* the value of a variable whose component a specification does not call
NotCalled == [called |-> FALSE]

ConverterIdle ==
    /\ call = NotCalled
    /\ overflow_checks = FALSE
    /\ result = NotCalled

----------------------------------------------------------------------------
(* Bounds of the explored input space *)

MaxLines == 3       \* longest cable list of the graph fixtures
MaxElems == 3       \* longest JSON array tried as a cable endpoint

----------------------------------------------------------------------------
(* Strings *)

None == [some |-> FALSE, val |-> <<>>]
Some(s) == [some |-> TRUE, val |-> s]

\* Option<String>::as_deref().unwrap_or("")
unwrap_or_empty(t) == IF t.some THEN t.val ELSE <<>>

\* str::starts_with(&str)
starts_with(s, p) == Len(p) <= Len(s) /\ SubSeq(s, 1, Len(p)) = p

\* str::contains(char)
contains(s, c) == \E i \in 1..Len(s) : s[i] = c

p_cycle == <<"c", "y", "c", "l", "e", "~">>
p_noise == <<"n", "o", "i", "s", "e", "~">>
p_adc == <<"a", "d", "c", "~">>
p_mc_adc == <<"m", "c", ".", "a", "d", "c", "~">>
p_phasor == <<"p", "h", "a", "s", "o", "r", "~">>
p_saw == <<"s", "a", "w", "~">>
p_tri == <<"t", "r", "i", "~">>
p_rect == <<"r", "e", "c", "t", "~">>
p_dac == <<"d", "a", "c", "~">>
p_mc_dac == <<"m", "c", ".", "d", "a", "c", "~">>
p_panoramix == <<"s", "p", "a", "t", "5", ".", "p", "a", "n", "o", "r", "a", "m", "i", "x", "~">>
p_spat == <<"s", "p", "a", "t", "5", ".", "s", "p", "a", "t", "~">>
p_spat5 == <<"s", "p", "a", "t", "5">>
p_pan == <<"p", "a", "n">>
p_line == <<"l", "i", "n", "e">>
p_ramp == <<"r", "a", "m", "p">>

\* Box texts used as inputs
t_cycle == <<"c", "y", "c", "l", "e", "~", " ", "4", "4", "0">>
t_noise == <<"n", "o", "i", "s", "e", "~">>
t_adc == <<"a", "d", "c", "~", " ", "1">>
t_mc_adc == <<"m", "c", ".", "a", "d", "c", "~", " ", "8">>
t_phasor == <<"p", "h", "a", "s", "o", "r", "~", " ", "1">>
t_saw == <<"s", "a", "w", "~", " ", "2", "2", "0">>
t_tri == <<"t", "r", "i", "~", " ", "2", "2", "0">>
t_rect == <<"r", "e", "c", "t", "~", " ", "2", "2", "0">>
t_dac == <<"d", "a", "c", "~">>
t_mc_dac == <<"m", "c", ".", "d", "a", "c", "~", " ", "8">>
t_panoramix == <<"s", "p", "a", "t", "5", ".", "p", "a", "n", "o", "r", "a", "m", "i", "x", "~">>
t_spat == <<"s", "p", "a", "t", "5", ".", "s", "p", "a", "t", "~">>
t_gain == <<"g", "a", "i", "n", "~", " ", "0", ".", "5">>
t_viewer == <<"s", "p", "a", "t", "5", ".", "v", "i", "e", "w", "e", "r">>
t_line == <<"l", "i", "n", "e", " ", "0", ".">>
t_ramp == <<"r", "a", "m", "p", " ", "1", "0">>
t_metro == <<"m", "e", "t", "r", "o", " ", "1", "0", "0">>
t_dac_note == <<"d", "a", "c", "~", " ", "o", "u", "t">>
t_mul == <<"*", "~", " ", "0", ".", "5">>
t_pan == <<"p", "a", "n", "~", " ", "0">>

----------------------------------------------------------------------------
(* Integers of fixed width *)

u64_0 == <<0, 0, 0, 0>>
u64_1 == <<1, 0, 0, 0>>
u64_2p32_1 == <<1, 0, 1, 0>>        \* 4294967297

\* `x as u32` for x: u64 keeps the low 32 bits
as_u32(n) == <<n[1], n[2]>>

\* u32 -> u64 is zero extension; two numbers are equal when all limbs are
u32_to_u64(n) == <<n[1], n[2], 0, 0>>

----------------------------------------------------------------------------
(* serde_json::Value *)

JNull == [t |-> "null", s |-> "", n |-> u64_0, elems |-> <<>>]
JString(str) == [t |-> "string", s |-> str, n |-> u64_0, elems |-> <<>>]
\* Number::PosInt(u64)
JPosInt(n) == [t |-> "posint", s |-> "", n |-> n, elems |-> <<>>]
\* Number::NegInt(i64), always negative; n is the magnitude
JNegInt(n) == [t |-> "negint", s |-> "", n |-> n, elems |-> <<>>]
\* Number::Float(f64); the payload plays no part in graph construction
JFloat == [t |-> "float", s |-> "", n |-> u64_0, elems |-> <<>>]
JArray(elems) == [t |-> "array", s |-> "", n |-> u64_0, elems |-> elems]

\* Value::as_array, Value::as_str, Value::as_u64 return Some exactly on these
is_array(v) == v.t = "array"
is_str(v) == v.t = "string"
is_u64(v) == v.t = "posint"

----------------------------------------------------------------------------
(* Patches: BoxContent and PatchLine *)

Box(id, maxclass, text, numinlets, numoutlets) ==
    [id |-> id, maxclass |-> maxclass, text |-> text,
     numinlets |-> numinlets, numoutlets |-> numoutlets]

PatchLine(source, destination) == [source |-> source, destination |-> destination]

\* the usual cable: "source": [id, outlet], "destination": [id, inlet]
Cable(src, outlet, dst, inlet) ==
    PatchLine(JArray(<<JString(src), JPosInt(outlet)>>),
              JArray(<<JString(dst), JPosInt(inlet)>>))

----------------------------------------------------------------------------
(* petgraph::Graph<AudioNode, AudioConnection, Directed> *)

new_graph == [nodes |-> <<>>, edges |-> <<>>]

\* Graph::add_node: the new node takes the next index
add_node(g, node) == [g EXCEPT !.nodes = Append(@, node)]

\* add_edge that updates an existing edge a -> b instead of adding a second one
add_edge_merging(g, a, b, weight) ==
    IF \E e \in 1..Len(g.edges) : g.edges[e].source = a /\ g.edges[e].target = b
    THEN g
    ELSE [g EXCEPT !.edges = Append(@, [source |-> a, target |-> b,
                                        source_outlet |-> weight.source_outlet,
                                        dest_inlet |-> weight.dest_inlet,
                                        connection_type |-> weight.connection_type])]

\* Graph::add_edge: parallel edges and self-loops are kept
add_edge(g, a, b, weight) ==
    [g EXCEPT !.edges = Append(@, [source |-> a, target |-> b,
                                   source_outlet |-> weight.source_outlet,
                                   dest_inlet |-> weight.dest_inlet,
                                   connection_type |-> weight.connection_type])]

AudioNode(content) ==
    [id |-> content.id, object_type |-> content.maxclass, text |-> content.text,
     num_inlets |-> content.numinlets, num_outlets |-> content.numoutlets]

\* HashMap::insert: a later insert under the same key replaces the value
map_insert(m, key, val) ==
    [x \in (DOMAIN m) \cup {key} |-> IF x = key THEN val ELSE m[x]]

empty_map == [x \in {} |-> 0]

----------------------------------------------------------------------------
(* graph.rs: construction *)

InvalidRouting == [ok |-> FALSE, id |-> "", port |-> <<0, 0>>]

\* parse_connection_endpoint that falls back to port 0 (unwrap_or(0)) when the
\* second element is not a u64
parse_connection_endpoint_default_port(endpoint) ==
    IF is_array(endpoint) /\ Len(endpoint.elems) >= 2
    THEN IF ~is_str(endpoint.elems[1]) THEN InvalidRouting
         ELSE [ok |-> TRUE, id |-> endpoint.elems[1].s,
               port |-> IF is_u64(endpoint.elems[2])
                        THEN as_u32(endpoint.elems[2].n) ELSE <<0, 0>>]
    ELSE InvalidRouting

parse_connection_endpoint(endpoint) ==
    IF is_array(endpoint) /\ Len(endpoint.elems) >= 2
    THEN IF ~is_str(endpoint.elems[1]) THEN InvalidRouting
         ELSE IF ~is_u64(endpoint.elems[2]) THEN InvalidRouting
         ELSE [ok |-> TRUE, id |-> endpoint.elems[1].s,
               port |-> as_u32(endpoint.elems[2].n)]
    ELSE InvalidRouting

\* determine_connection_type that takes only outlet 0 for a signal outlet
determine_connection_type_by_outlet(source_node, dest_node, source_outlet, dest_inlet) ==
    LET source_text == unwrap_or_empty(source_node.text)
        dest_text == unwrap_or_empty(dest_node.text)
        source_is_audio == contains(source_text, "~") \/ starts_with(source_text, p_spat5)
        dest_is_audio == contains(dest_text, "~") \/ starts_with(dest_text, p_spat5)
    IN  IF source_node.object_type \in {"flonum", "slider", "dial", "number"}
        THEN "Control"
        ELSE IF source_is_audio /\ dest_is_audio /\ source_outlet = <<0, 0>>
        THEN "Audio"
        ELSE IF source_node.object_type = "newobj"
                /\ (starts_with(source_text, p_line) \/ starts_with(source_text, p_ramp))
        THEN "Control"
        ELSE IF source_is_audio \/ dest_is_audio
        THEN "Control"
        ELSE "Message"

\* determine_connection_type that calls a cable audio when either end is
determine_connection_type_either_audio(source_node, dest_node, source_outlet, dest_inlet) ==
    LET source_text == unwrap_or_empty(source_node.text)
        dest_text == unwrap_or_empty(dest_node.text)
        source_is_audio == contains(source_text, "~") \/ starts_with(source_text, p_spat5)
        dest_is_audio == contains(dest_text, "~") \/ starts_with(dest_text, p_spat5)
    IN  IF source_node.object_type \in {"flonum", "slider", "dial", "number"}
        THEN "Control"
        ELSE IF source_is_audio \/ dest_is_audio
        THEN "Audio"
        ELSE IF source_node.object_type = "newobj"
                /\ (starts_with(source_text, p_line) \/ starts_with(source_text, p_ramp))
        THEN "Control"
        ELSE "Message"

determine_connection_type(source_node, dest_node, source_outlet, dest_inlet) ==
    LET source_text == unwrap_or_empty(source_node.text)
        dest_text == unwrap_or_empty(dest_node.text)
        source_is_audio == contains(source_text, "~") \/ starts_with(source_text, p_spat5)
        dest_is_audio == contains(dest_text, "~") \/ starts_with(dest_text, p_spat5)
    IN  IF source_node.object_type \in {"flonum", "slider", "dial", "number"}
        THEN "Control"
        ELSE IF source_is_audio /\ dest_is_audio
        THEN "Audio"
        ELSE IF source_node.object_type = "newobj"
                /\ (starts_with(source_text, p_line) \/ starts_with(source_text, p_ramp))
        THEN "Control"
        ELSE IF source_is_audio \/ dest_is_audio
        THEN "Control"
        ELSE "Message"

\* First pass: one node per box, node_map[id] is the index of the last box
\* inserted under that id.  Returns [graph, node_map].
RECURSIVE first_pass(_, _, _)
first_pass(boxes, g, m) ==
    IF boxes = <<>> THEN [graph |-> g, node_map |-> m]
    ELSE LET content == Head(boxes)
             node_index == Len(g.nodes) + 1
         IN  first_pass(Tail(boxes), add_node(g, AudioNode(content)),
                        map_insert(m, content.id, node_index))

\* One iteration of the second pass.  [ok |-> FALSE] is the early return of
\* any of the four `?`; otherwise the graph with the edge added.
connect_line(g, m, patchline) ==
    LET src == parse_connection_endpoint(patchline.source)
        dst == parse_connection_endpoint(patchline.destination)
    IN  IF ~src.ok \/ ~dst.ok THEN [ok |-> FALSE, graph |-> g]
        ELSE IF src.id \notin DOMAIN m \/ dst.id \notin DOMAIN m
        THEN [ok |-> FALSE, graph |-> g]
        ELSE LET source_idx == m[src.id]
                 dest_idx == m[dst.id]
                 connection_type ==
                     determine_connection_type(g.nodes[source_idx], g.nodes[dest_idx],
                                               src.port, dst.port)
             IN  [ok |-> TRUE,
                  graph |-> add_edge(g, source_idx, dest_idx,
                                     [source_outlet |-> src.port,
                                      dest_inlet |-> dst.port,
                                      connection_type |-> connection_type])]

\* build_from_patch that builds in place: the receiver holds whatever was built
build_from_patch_in_place(receiver, ok, built) == built

\* SignalFlowGraphExt::build_from_patch: `*self = build_signal_flow_graph(patch)?`
\* assigns only when the build returned Ok.
build_from_patch_receiver(receiver, ok, built) == IF ok THEN built ELSE receiver

----------------------------------------------------------------------------
(* graph.rs: analysis *)

EdgeIndices(g) == 1..Len(g.edges)

\* graph.node_indices(): every index, ascending
node_indices(g) == [i \in 1..Len(g.nodes) |-> i]

is_audio_generator(node) ==
    LET text == unwrap_or_empty(node.text)
    IN  IF node.object_type = "newobj"
        THEN \/ starts_with(text, p_cycle)
             \/ starts_with(text, p_noise)
             \/ starts_with(text, p_adc)
             \/ starts_with(text, p_mc_adc)
             \/ starts_with(text, p_phasor)
             \/ starts_with(text, p_saw)
             \/ starts_with(text, p_tri)
             \/ starts_with(text, p_rect)
        ELSE FALSE

is_audio_sink(node) ==
    LET text == unwrap_or_empty(node.text)
    IN  IF node.object_type = "newobj"
        THEN \/ starts_with(text, p_dac)
             \/ starts_with(text, p_mc_dac)
             \/ starts_with(text, p_panoramix)
             \/ starts_with(text, p_spat)
        ELSE FALSE

\* has_audio_input that counts an incoming edge of any type
has_audio_input_any_type(g, node_idx) ==
    \E e \in 1..Len(g.edges) : g.edges[e].target = node_idx

\* has_audio_output that looks at the incoming edges
has_audio_output_incoming(g, node_idx) ==
    \E e \in 1..Len(g.edges) :
        g.edges[e].target = node_idx /\ g.edges[e].connection_type = "Audio"

\* edges_directed(node_idx, Incoming).any(|e| e.connection_type is Audio)
has_audio_input(g, node_idx) ==
    \E e \in EdgeIndices(g) :
        g.edges[e].target = node_idx /\ g.edges[e].connection_type = "Audio"

\* edges_directed(node_idx, Outgoing).any(|e| e.connection_type is Audio)
has_audio_output(g, node_idx) ==
    \E e \in EdgeIndices(g) :
        g.edges[e].source = node_idx /\ g.edges[e].connection_type = "Audio"

get_audio_sources(g) ==
    LET keep(node_idx) ==
            is_audio_generator(g.nodes[node_idx]) /\ ~has_audio_input(g, node_idx)
    IN  SelectSeq(node_indices(g), keep)

get_audio_sinks(g) ==
    LET keep(node_idx) ==
            is_audio_sink(g.nodes[node_idx]) /\ ~has_audio_output(g, node_idx)
    IN  SelectSeq(node_indices(g), keep)

is_control_object(node) ==
    node.object_type \in {"flonum", "slider", "dial", "number", "toggle", "button",
                          "live.dial", "live.slider", "live.numbox"}

\* Graph::neighbors_directed(a, Outgoing): the targets of a's outgoing edges,
\* most recently added edge first, one entry per edge.
RECURSIVE neighbors_from(_, _, _)
neighbors_from(g, a, e) ==
    IF e = 0 THEN <<>>
    ELSE (IF g.edges[e].source = a THEN <<g.edges[e].target>> ELSE <<>>)
         \o neighbors_from(g, a, e - 1)

neighbors(g, a) == neighbors_from(g, a, Len(g.edges))

\* Graph::find_edge(a, b): the most recently added edge a -> b, 0 for None
RECURSIVE find_edge_from(_, _, _, _)
find_edge_from(g, a, b, e) ==
    IF e = 0 THEN 0
    ELSE IF g.edges[e].source = a /\ g.edges[e].target = b THEN e
    ELSE find_edge_from(g, a, b, e - 1)

find_edge(g, a, b) == find_edge_from(g, a, b, Len(g.edges))

in_seq(s, x) == \E i \in 1..Len(s) : s[i] = x

\* what Iterator::any(|v| v == x) leaves of the iterator s after it found x
RECURSIVE after_first(_, _)
after_first(s, x) ==
    IF s = <<>> THEN <<>>
    ELSE IF Head(s) = x THEN Tail(s)
    ELSE after_first(Tail(s), x)

\* petgraph::algo::all_simple_paths(graph, from, to, 0, None), as the sequence
\* of paths the iterator yields.  `visited` is the IndexSet of the nodes on
\* the current path and `children` what is left of the neighbour iterator on
\* top of the stack; max_length is node_count - 1 and min_length is 1.
RECURSIVE simple_paths_from(_, _, _, _)
simple_paths_from(g, to, visited, children) ==
    IF children = <<>> THEN <<>>
    ELSE LET child == Head(children)
         IN  IF in_seq(visited, child)
             THEN \* if visited.contains(&child) { continue; }
                  simple_paths_from(g, to, visited, Tail(children))
             ELSE IF Len(visited) < Len(g.nodes) - 1
             THEN (IF child = to THEN <<Append(visited, to)>>
                   ELSE simple_paths_from(g, to, Append(visited, child),
                                          neighbors(g, child)))
                  \o simple_paths_from(g, to, visited, Tail(children))
             ELSE \* lookahead: each `to` left among the children and off the
                  \* path yields the path once more, then the level is popped
                  IF child = to \/ (in_seq(Tail(children), to) /\ ~in_seq(visited, to))
                  THEN <<Append(visited, to)>>
                       \o simple_paths_from(g, to, visited,
                              IF child = to THEN Tail(children)
                              ELSE after_first(Tail(children), to))
                  ELSE <<>>

all_simple_paths(g, from, to) == simple_paths_from(g, to, <<from>>, neighbors(g, from))

\* find_audio_path without the check of the connection types
is_audio_path_unchecked(g, path) == TRUE

\* the check of one candidate path in find_audio_path
is_audio_path(g, path) ==
    \A i \in 1..(Len(path) - 1) :
        LET edge_idx == find_edge(g, path[i], path[i + 1])
        IN  edge_idx # 0 => g.edges[edge_idx].connection_type = "Audio"

RECURSIVE first_audio_path(_, _)
first_audio_path(g, paths) ==
    IF paths = <<>> THEN <<>>
    ELSE IF is_audio_path(g, Head(paths)) THEN Head(paths)
    ELSE first_audio_path(g, Tail(paths))

\* find_audio_path giving up after the first candidate path
find_audio_path_first_only(g, source, sink) ==
    LET paths == all_simple_paths(g, source, sink)
    IN  IF paths # <<>> /\ is_audio_path(g, Head(paths)) THEN Head(paths) ELSE <<>>

\* Option<Vec<NodeIndex>>: <<>> is None (a path has at least two nodes)
find_audio_path(g, source, sink) == first_audio_path(g, all_simple_paths(g, source, sink))

\* for source in sources { for sink in sinks { ... } }
RECURSIVE chains_for_source(_, _, _)
chains_for_source(g, source_idx, sink_list) ==
    IF sink_list = <<>> THEN <<>>
    ELSE LET path == find_audio_path(g, source_idx, Head(sink_list))
         IN  (IF path # <<>>
              THEN <<[source |-> source_idx, sink |-> Head(sink_list), path |-> path]>>
              ELSE <<>>)
             \o chains_for_source(g, source_idx, Tail(sink_list))

RECURSIVE chains_for_sources(_, _, _)
chains_for_sources(g, source_list, sink_list) ==
    IF source_list = <<>> THEN <<>>
    ELSE chains_for_source(g, Head(source_list), sink_list)
         \o chains_for_sources(g, Tail(source_list), sink_list)

analyze_signal_chains(g) ==
    chains_for_sources(g, get_audio_sources(g), get_audio_sinks(g))

----------------------------------------------------------------------------
(* Inputs *)

\* all sequences over S of length 0..n
SeqsUpTo(S, n) == UNION {[1..m -> S] : m \in 0..n}

Ids(boxes) == {boxes[i].id : i \in 1..Len(boxes)}

\* graph_tests.rs, test_build_simple_signal_graph
SimpleBoxes ==
    <<Box("obj-1", "newobj", Some(t_cycle), 2, 1),
      Box("obj-2", "newobj", Some(t_dac), 2, 0)>>

SimpleLine == Cable("obj-1", u64_0, "obj-2", u64_0)

\* Box lists of the graph fixtures: the shapes of graph_tests.rs and
\* variations of them (a control box, a spatial sink, boxes that are not
\* objects but carry object-like text, two boxes under one id).
BoxLists ==
    { SimpleBoxes,
      <<Box("obj-1", "newobj", Some(t_cycle), 2, 1),
        Box("obj-2", "newobj", Some(t_gain), 2, 1),
        Box("obj-3", "newobj", Some(t_dac), 2, 0)>>,
      <<Box("obj-1", "newobj", Some(t_cycle), 2, 1),
        Box("obj-2", "newobj", Some(t_noise), 0, 1),
        Box("obj-3", "newobj", Some(t_dac), 2, 0)>>,
      <<Box("obj-1", "newobj", Some(t_cycle), 2, 1),
        Box("obj-2", "flonum", None, 1, 2),
        Box("obj-3", "newobj", Some(t_dac), 2, 0)>>,
      <<Box("obj-1", "newobj", Some(t_adc), 1, 1),
        Box("obj-2", "newobj", Some(t_panoramix), 1, 2),
        Box("obj-3", "newobj", Some(t_dac), 2, 0)>>,
      <<Box("obj-1", "message", Some(t_cycle), 2, 1),
        Box("obj-2", "comment", Some(t_dac_note), 1, 0),
        Box("obj-3", "newobj", Some(t_dac), 2, 0)>>,
      <<Box("obj-1", "newobj", Some(t_cycle), 2, 1),
        Box("obj-1", "newobj", Some(t_gain), 2, 1),
        Box("obj-2", "newobj", Some(t_dac), 2, 0)>> }

\* graph_tests.rs, test_identify_audio_sources_and_sinks and
\* test_signal_chain_analysis, as written
TestPatches ==
    { [boxes |-> <<Box("obj-1", "newobj", Some(t_cycle), 2, 1),
                   Box("obj-2", "newobj", Some(t_noise), 0, 1),
                   Box("obj-3", "newobj", Some(t_dac), 2, 0),
                   Box("obj-4", "flonum", None, 1, 2)>>,
       lines |-> <<Cable("obj-1", u64_0, "obj-3", u64_0),
                   Cable("obj-2", u64_0, "obj-3", u64_1),
                   Cable("obj-4", u64_0, "obj-1", u64_0)>>],
      [boxes |-> <<Box("obj-1", "newobj", Some(t_cycle), 2, 1),
                   Box("obj-2", "newobj", Some(t_mul), 2, 1),
                   Box("obj-3", "newobj", Some(t_pan), 2, 2),
                   Box("obj-4", "newobj", Some(t_dac), 2, 0)>>,
       lines |-> <<Cable("obj-1", u64_0, "obj-2", u64_0),
                   Cable("obj-2", u64_0, "obj-3", u64_0),
                   Cable("obj-3", u64_0, "obj-4", u64_0),
                   Cable("obj-3", u64_1, "obj-4", u64_1)>>] }

\* the cables tried on a box list: every ordered pair of its ids (self-loops
\* included; repeating a cable gives parallel edges) and one cable from an id
\* that names no box
GraphCables(boxes) ==
    {Cable(a, u64_0, b, u64_0) : a \in Ids(boxes), b \in Ids(boxes)}
    \cup {Cable("obj-9", u64_0, "obj-1", u64_0)}

\* JSON scalars tried inside and in place of an endpoint array
Scalars ==
    {JString("obj-1"), JString("obj-9"), JPosInt(u64_0), JPosInt(u64_2p32_1),
     JNegInt(u64_1), JFloat, JNull}

Endpoints == Scalars \cup {JArray(e) : e \in SeqsUpTo(Scalars, MaxElems)}

EndpointCables ==
    {PatchLine(ep, JArray(<<JString("obj-2"), JPosInt(u64_0)>>)) : ep \in Endpoints}
    \cup {PatchLine(JArray(<<JString("obj-1"), JPosInt(u64_0)>>), ep) : ep \in Endpoints}

\* (maxclass, text) of the boxes tried as the two ends of one cable
NodeKinds ==
    {[maxclass |-> "newobj", text |-> t] :
        t \in {Some(t_cycle), Some(t_noise), Some(t_adc), Some(t_mc_adc),
               Some(t_phasor), Some(t_saw), Some(t_tri), Some(t_rect),
               Some(t_dac), Some(t_mc_dac), Some(t_panoramix), Some(t_spat),
               Some(t_gain), Some(t_viewer), Some(t_line), Some(t_ramp),
               Some(t_metro), None}}
    \cup {[maxclass |-> c, text |-> None] :
        c \in {"flonum", "slider", "dial", "number", "toggle", "button",
               "live.dial", "live.slider", "live.numbox"}}
    \cup {[maxclass |-> "flonum", text |-> Some(t_gain)],
          [maxclass |-> "toggle", text |-> Some(t_gain)],
          [maxclass |-> "message", text |-> Some(t_line)],
          [maxclass |-> "message", text |-> Some(t_cycle)],
          [maxclass |-> "comment", text |-> Some(t_dac_note)]}

PairLines ==
    { <<SimpleLine>>,
      <<SimpleLine, Cable("obj-1", u64_1, "obj-2", u64_1)>> }

\* a receiver that already holds the graph of an earlier successful call,
\* on the patch noise~ -> dac~
PriorBoxes ==
    <<Box("obj-7", "newobj", Some(t_noise), 0, 1),
      Box("obj-8", "newobj", Some(t_dac), 2, 0)>>

PriorGraph ==
    LET fp == first_pass(PriorBoxes, new_graph, empty_map)
    IN  connect_line(fp.graph, fp.node_map, Cable("obj-7", u64_0, "obj-8", u64_0)).graph

----------------------------------------------------------------------------
(* The state machine: one call of build_from_patch on a receiver, followed *)
(* by the analysis of the receiver.                                        *)

InitLocals ==
    /\ graph = new_graph
    /\ node_map = empty_map
    /\ k = 0
    /\ pc = "call"
    /\ ret = "none"
    /\ sources = <<>>
    /\ sinks = <<>>
    /\ chains = <<>>
    /\ osc_config = NotCalled
    /\ config = NotCalled
    /\ search = NotCalled
    /\ fs = NotCalled
    /\ ConverterIdle

\* graphs: a fixture box list under every cable list of up to MaxLines cables
InitGraphs ==
    /\ \E boxes \in BoxLists :
        \E lines \in SeqsUpTo(GraphCables(boxes), MaxLines) :
            patch = [boxes |-> boxes, lines |-> lines]
    /\ self = new_graph
    /\ InitLocals

\* endpoints: one cable with an arbitrary JSON value at one end, alone or
\* after a valid cable, on a fresh or an already built receiver
InitEndpoints ==
    /\ \E c \in EndpointCables :
        \E lines \in {<<c>>, <<SimpleLine, c>>} :
            patch = [boxes |-> SimpleBoxes, lines |-> lines]
    /\ self \in {new_graph, PriorGraph}
    /\ InitLocals

\* node pairs: every pair of node kinds joined by one cable or two parallel
\* cables on different ports
InitPairs ==
    /\ \E a \in NodeKinds, b \in NodeKinds :
        \E lines \in PairLines :
            patch = [boxes |-> <<Box("obj-1", a.maxclass, a.text, 1, 1),
                                 Box("obj-2", b.maxclass, b.text, 1, 1)>>,
                     lines |-> lines]
    /\ self = new_graph
    /\ InitLocals

\* the patches of the test suite
InitTests ==
    /\ patch \in TestPatches
    /\ self = new_graph
    /\ InitLocals

Init == InitGraphs \/ InitEndpoints \/ InitPairs \/ InitTests

\* graph.rs 36-54
FirstPass ==
    /\ pc = "call"
    /\ LET fp == first_pass(patch.boxes, new_graph, empty_map)
       IN  /\ graph' = fp.graph
           /\ node_map' = fp.node_map
    /\ pc' = "lines"
    /\ UNCHANGED <<patch, self, k, ret, sources, sinks, chains>>
    /\ UNCHANGED beyond_graph

\* graph.rs 57-85, an iteration that reaches add_edge
AddConnection ==
    /\ pc = "lines"
    /\ k < Len(patch.lines)
    /\ LET r == connect_line(graph, node_map, patch.lines[k + 1])
       IN  /\ r.ok
           /\ graph' = r.graph
    /\ k' = k + 1
    /\ UNCHANGED <<patch, self, node_map, pc, ret, sources, sinks, chains>>
    /\ UNCHANGED beyond_graph

\* graph.rs 57-70, an iteration that returns Err(InvalidRouting) through `?`;
\* the locals are dropped and build_from_patch (319) propagates the error
RejectConnection ==
    /\ pc = "lines"
    /\ k < Len(patch.lines)
    /\ ~connect_line(graph, node_map, patch.lines[k + 1]).ok
    /\ self' = build_from_patch_receiver(self, FALSE, graph)
    /\ graph' = new_graph
    /\ node_map' = empty_map
    /\ ret' = "InvalidRouting"
    /\ pc' = "returned"
    /\ UNCHANGED <<patch, k, sources, sinks, chains>>
    /\ UNCHANGED beyond_graph

\* graph.rs 87 and 319-320: Ok(graph) is moved into the receiver
ReturnOk ==
    /\ pc = "lines"
    /\ k = Len(patch.lines)
    /\ self' = build_from_patch_receiver(self, TRUE, graph)
    /\ graph' = new_graph
    /\ node_map' = empty_map
    /\ ret' = "Ok"
    /\ pc' = "returned"
    /\ UNCHANGED <<patch, k, sources, sinks, chains>>
    /\ UNCHANGED beyond_graph

\* graph.rs 145-182 and 241-259 on the receiver
Analyze ==
    /\ pc = "returned"
    /\ sources' = get_audio_sources(self)
    /\ sinks' = get_audio_sinks(self)
    /\ chains' = analyze_signal_chains(self)
    /\ pc' = "analyzed"
    /\ UNCHANGED <<patch, self, graph, node_map, k, ret>>
    /\ UNCHANGED beyond_graph

Next == FirstPass \/ AddConnection \/ RejectConnection \/ ReturnOk \/ Analyze

Spec == Init /\ [][Next]_vars

----------------------------------------------------------------------------
(* Vocabulary of the claims, stated on the input and independent of the    *)
(* operators above.                                                        *)

\* the graph under construction, or the graph the call returned
Built == pc = "lines" \/ ret = "Ok"
BuiltGraph == IF pc = "lines" THEN graph ELSE self
BuiltLines == IF pc = "lines" THEN k ELSE Len(patch.lines)
Returned == pc \in {"returned", "analyzed"}

\* an endpoint of the documented shape [id, port]
TwoElementEndpoint(ep) ==
    /\ ep.t = "array"
    /\ Len(ep.elems) = 2
    /\ ep.elems[1].t = "string"
    /\ ep.elems[2].t = "posint"

\* an endpoint with an id and a port in its first two places
AtLeastTwoElementEndpoint(ep) ==
    /\ ep.t = "array"
    /\ Len(ep.elems) >= 2
    /\ ep.elems[1].t = "string"
    /\ ep.elems[2].t = "posint"

NamesBox(ep) == \E i \in 1..Len(patch.boxes) : patch.boxes[i].id = ep.elems[1].s

WellFormedLine(l) ==
    /\ TwoElementEndpoint(l.source) /\ NamesBox(l.source)
    /\ TwoElementEndpoint(l.destination) /\ NamesBox(l.destination)

AcceptableLine(l) ==
    /\ AtLeastTwoElementEndpoint(l.source) /\ NamesBox(l.source)
    /\ AtLeastTwoElementEndpoint(l.destination) /\ NamesBox(l.destination)

WellFormedPatch == \A j \in 1..Len(patch.lines) : WellFormedLine(patch.lines[j])

NodeOfBox(node, content) ==
    /\ node.id = content.id
    /\ node.object_type = content.maxclass
    /\ node.text = content.text

EdgeOfLine(g, e, l) ==
    /\ g.nodes[e.source].id = l.source.elems[1].s
    /\ g.nodes[e.target].id = l.destination.elems[1].s

AudioBearing(node) ==
    node.text.some /\ (contains(node.text.val, "~") \/ starts_with(node.text.val, p_spat5))

ControlWidgets ==
    {"flonum", "slider", "dial", "number", "toggle", "button",
     "live.dial", "live.slider", "live.numbox"}

GeneratorPrefixes ==
    {p_cycle, p_noise, p_adc, p_mc_adc, p_phasor, p_saw, p_tri, p_rect}

SinkPrefixes == {p_dac, p_mc_dac, p_panoramix, p_spat}

TextStartsWithAny(node, prefixes) ==
    node.text.some /\ \E p \in prefixes : starts_with(node.text.val, p)

AudioEdge(g, a, b) ==
    \E e \in 1..Len(g.edges) :
        /\ g.edges[e].source = a
        /\ g.edges[e].target = b
        /\ g.edges[e].connection_type = "Audio"

AudioInto(g, n) == \E a \in 1..Len(g.nodes) : AudioEdge(g, a, n)
AudioOutOf(g, n) == \E b \in 1..Len(g.nodes) : AudioEdge(g, n, b)

\* seq lists exactly the members of 1..n that satisfy In, ascending
Ascending(seq) == \A i \in 1..(Len(seq) - 1) : seq[i] < seq[i + 1]
ListsExactly(seq, S) == Ascending(seq) /\ {seq[i] : i \in 1..Len(seq)} = S

ParallelEdges(g) ==
    \E e1 \in 1..Len(g.edges), e2 \in 1..Len(g.edges) :
        /\ e1 < e2
        /\ g.edges[e1].source = g.edges[e2].source
        /\ g.edges[e1].target = g.edges[e2].target

SelfLoop(g) == \E e \in 1..Len(g.edges) : g.edges[e].source = g.edges[e].target

----------------------------------------------------------------------------
(* Claims *)

\* C1: for every patch whose cable endpoints are all two-element [id, port]
\* arrays naming existing boxes, the build succeeds, with exactly one node per
\* box (built from that box) and exactly one edge per cable consumed, the
\* j-th edge running from a node carrying the j-th cable's source id to a
\* node carrying its destination id; parallel cables and self-loops are kept.
C1_OneNodePerBoxOneEdgePerCable ==
    WellFormedPatch =>
        /\ ret # "InvalidRouting"
        /\ Returned => ret = "Ok"
        /\ Built =>
            /\ Len(BuiltGraph.nodes) = Len(patch.boxes)
            /\ \A i \in 1..Len(patch.boxes) :
                NodeOfBox(BuiltGraph.nodes[i], patch.boxes[i])
            /\ Len(BuiltGraph.edges) = BuiltLines
            /\ \A j \in 1..BuiltLines :
                EdgeOfLine(BuiltGraph, BuiltGraph.edges[j], patch.lines[j])

\* a three-cable patch with a parallel cable and a self-loop was built
C1_Witness ==
    /\ ret = "Ok"
    /\ WellFormedPatch
    /\ Len(patch.lines) = 3
    /\ Len(self.edges) = 3
    /\ ParallelEdges(self)
    /\ SelfLoop(self)

\* C2 as stated: a patch with an endpoint that is not a two-element
\* [string, non-negative integer] array naming a box is rejected with
\* InvalidRouting.
C2_Original ==
    (Returned /\ \E j \in 1..Len(patch.lines) : ~WellFormedLine(patch.lines[j]))
        => ret = "InvalidRouting"

\* C2 amended: the build returns InvalidRouting exactly when some endpoint is
\* not an array, has fewer than two elements, has a first element that is not
\* a string or a second that is not a non-negative integer, or names no box;
\* elements after the second are ignored and do not make an endpoint invalid.
C2_RejectsMalformedEndpoints ==
    Returned =>
        (ret = "InvalidRouting"
            <=> \E j \in 1..Len(patch.lines) : ~AcceptableLine(patch.lines[j]))

\* a cable after a valid one was rejected for a port that is no u64
C2_Witness ==
    /\ ret = "InvalidRouting"
    /\ k = 1
    /\ LET ep == patch.lines[2].source
       IN  /\ ep.t = "array"
           /\ Len(ep.elems) = 2
           /\ ep.elems[1] = JString("obj-1")
           /\ ep.elems[2].t \in {"negint", "float", "null", "string"}

\* C3: a build that fails returns no graph, also after valid cables, and the
\* receiver of build_from_patch changes in no step other than a return of Ok.
C3_NoPartialGraph ==
    [][/\ ret' # "Ok" => self' = self
       /\ ret' = "InvalidRouting" => graph' = new_graph]_vars

\* a build failed on its second cable on a receiver holding an earlier graph
C3_Witness ==
    /\ ret = "InvalidRouting"
    /\ k = 1
    /\ self = PriorGraph
    /\ graph = new_graph

\* C4 as stated: the ports of an edge are the port numbers written in the
\* cable, for every non-negative integer the input can carry.
C4_PortsPreserved ==
    Built =>
        \A j \in 1..BuiltLines :
            WellFormedLine(patch.lines[j]) =>
                /\ u32_to_u64(BuiltGraph.edges[j].source_outlet)
                       = patch.lines[j].source.elems[2].n
                /\ u32_to_u64(BuiltGraph.edges[j].dest_inlet)
                       = patch.lines[j].destination.elems[2].n


SameKind(n1, n2) == n1.object_type = n2.object_type /\ n1.text = n2.text

\* C5: the connection type of an edge is determined by the object_type and
\* text of its two nodes: any two edges of a built graph whose source nodes
\* and whose destination nodes agree in object_type and text carry the same
\* tag, whatever their ports and their place in the cable list; so parallel
\* edges carry the same tag.
C5_TagFromNodesAlone ==
    Built =>
        \A e1 \in 1..Len(BuiltGraph.edges), e2 \in 1..Len(BuiltGraph.edges) :
            LET a == BuiltGraph.edges[e1]
                b == BuiltGraph.edges[e2]
            IN  (/\ SameKind(BuiltGraph.nodes[a.source], BuiltGraph.nodes[b.source])
                 /\ SameKind(BuiltGraph.nodes[a.target], BuiltGraph.nodes[b.target]))
                    => a.connection_type = b.connection_type

\* two parallel audio edges on different ports were built
C5_Witness ==
    /\ ret = "Ok"
    /\ Len(self.edges) = 2
    /\ self.edges[1].source = self.edges[2].source
    /\ self.edges[1].target = self.edges[2].target
    /\ self.edges[1].source_outlet # self.edges[2].source_outlet
    /\ self.edges[1].dest_inlet # self.edges[2].dest_inlet
    /\ self.edges[1].connection_type = "Audio"

\* C6 as stated: every cable whose source is one of the control widgets
\* counted by count_control_objects is classified Control.
C6_ControlWidgetsSendControl ==
    Built =>
        \A e \in 1..Len(BuiltGraph.edges) :
            is_control_object(BuiltGraph.nodes[BuiltGraph.edges[e].source])
                => BuiltGraph.edges[e].connection_type = "Control"

LineOrRamp(node) ==
    node.text.some
    /\ (starts_with(node.text.val, p_line) \/ starts_with(node.text.val, p_ramp))

\* the table of C7 as stated
ClaimedTag(s, d) ==
    IF AudioBearing(s) /\ AudioBearing(d) THEN "Audio"
    ELSE IF LineOrRamp(s) THEN "Control"
    ELSE IF AudioBearing(s) # AudioBearing(d) THEN "Control"
    ELSE "Message"

\* the table of C7 with the line/ramp rule kept to object boxes
AmendedTag(s, d) ==
    IF AudioBearing(s) /\ AudioBearing(d) THEN "Audio"
    ELSE IF s.object_type = "newobj" /\ LineOrRamp(s) THEN "Control"
    ELSE IF AudioBearing(s) # AudioBearing(d) THEN "Control"
    ELSE "Message"

\* C7 as stated: for a source of any object type that is not a control
\* widget the tag is Audio when both ends are audio-bearing, else Control
\* when the source text begins with line or ramp, else Control when exactly
\* one end is audio-bearing, else Message.
C7_Original ==
    Built =>
        \A e \in 1..Len(BuiltGraph.edges) :
            LET s == BuiltGraph.nodes[BuiltGraph.edges[e].source]
                d == BuiltGraph.nodes[BuiltGraph.edges[e].target]
            IN  s.object_type \notin ControlWidgets
                    => BuiltGraph.edges[e].connection_type = ClaimedTag(s, d)

\* C7 amended: as C7, but the line/ramp rule applies only to a source of
\* object type newobj; a message or comment box whose text begins with line
\* or ramp falls through to the last two rules.  The tag is never Unknown,
\* also for nodes without text.  Checked for every source that is not a
\* flonum, slider, dial or number, which covers every source that is not a
\* control widget.
C7_ClassifierTable ==
    Built =>
        \A e \in 1..Len(BuiltGraph.edges) :
            LET s == BuiltGraph.nodes[BuiltGraph.edges[e].source]
                d == BuiltGraph.nodes[BuiltGraph.edges[e].target]
            IN  s.object_type \notin {"flonum", "slider", "dial", "number"}
                    => /\ BuiltGraph.edges[e].connection_type = AmendedTag(s, d)
                       /\ BuiltGraph.edges[e].connection_type # "Unknown"

\* a cable from the object `line 0.` into an object without text was built
\* and is Control
C7_Witness ==
    /\ ret = "Ok"
    /\ Len(self.edges) >= 1
    /\ LET s == self.nodes[self.edges[1].source]
           d == self.nodes[self.edges[1].target]
       IN  /\ s.object_type = "newobj"
           /\ s.text = Some(t_line)
           /\ d.text = None
           /\ self.edges[1].connection_type = "Control"

ClaimedSources(g) ==
    {n \in 1..Len(g.nodes) :
        TextStartsWithAny(g.nodes[n], GeneratorPrefixes) /\ ~AudioInto(g, n)}

ClaimedSinks(g) ==
    {n \in 1..Len(g.nodes) :
        TextStartsWithAny(g.nodes[n], SinkPrefixes) /\ ~AudioOutOf(g, n)}

\* C8 as stated: the sources are exactly the nodes whose text starts with a
\* generator prefix and that have no incoming Audio edge, the sinks exactly
\* the nodes whose text starts with an output prefix and that have no
\* outgoing Audio edge, each listed once in node order.
C8_Original ==
    pc = "analyzed" =>
        /\ ListsExactly(sources, ClaimedSources(self))
        /\ ListsExactly(sinks, ClaimedSinks(self))

\* C8 amended: as C8, for the nodes of object type newobj; a box of another
\* type (message, comment, ...) is neither a source nor a sink whatever its
\* text.
C8_SourcesAndSinks ==
    pc = "analyzed" =>
        /\ ListsExactly(sources,
               {n \in ClaimedSources(self) : self.nodes[n].object_type = "newobj"})
        /\ ListsExactly(sinks,
               {n \in ClaimedSinks(self) : self.nodes[n].object_type = "newobj"})

\* a graph was analysed that has a source, a sink, and a generator left out
\* of the sources for its incoming Audio edge
C8_Witness ==
    /\ pc = "analyzed"
    /\ sources # <<>>
    /\ sinks # <<>>
    /\ \E n \in 1..Len(self.nodes) :
        /\ self.nodes[n].object_type = "newobj"
        /\ TextStartsWithAny(self.nodes[n], GeneratorPrefixes)
        /\ AudioInto(self, n)
        /\ ~in_seq(sources, n)

\* C9: a step of the build that adds an edge classified Control or Message
\* leaves every earlier edge (its tag included), the audio sources and the
\* audio sinks of the graph as they were.
C9_ControlEdgesChangeNothing ==
    [][(/\ pc = "lines"
        /\ pc' = "lines"
        /\ Len(graph'.edges) = Len(graph.edges) + 1
        /\ graph'.edges[Len(graph'.edges)].connection_type \in {"Control", "Message"})
        => /\ SubSeq(graph'.edges, 1, Len(graph.edges)) = graph.edges
           /\ get_audio_sources(graph') = get_audio_sources(graph)
           /\ get_audio_sinks(graph') = get_audio_sinks(graph)]_vars

\* the patch of test_identify_audio_sources_and_sinks: after the two Audio
\* edges into dac~, the Control edge flonum -> cycle~ was added, and the
\* graph has its two sources and one sink
C9_Witness ==
    /\ pc = "lines"
    /\ Len(graph.nodes) = 4
    /\ Len(graph.edges) = 3
    /\ graph.edges[1].connection_type = "Audio"
    /\ graph.edges[2].connection_type = "Audio"
    /\ graph.edges[3].connection_type = "Control"
    /\ graph.nodes[graph.edges[3].source].object_type = "flonum"
    /\ in_seq(get_audio_sources(graph), graph.edges[3].target)
    /\ Len(get_audio_sources(graph)) = 2
    /\ Len(get_audio_sinks(graph)) = 1

\* C10: every chain of analyze_signal_chains has a path from its source, one
\* of the audio sources, to its sink, one of the audio sinks, that visits no
\* node twice and whose consecutive nodes are joined, in path direction, by
\* an Audio edge.
C10_ChainsAreAudioPaths ==
    pc = "analyzed" =>
        \A c \in 1..Len(chains) :
            LET path == chains[c].path
            IN  /\ Len(path) >= 2
                /\ path[1] = chains[c].source
                /\ path[Len(path)] = chains[c].sink
                /\ in_seq(sources, chains[c].source)
                /\ in_seq(sinks, chains[c].sink)
                /\ \A i \in 1..Len(path), j \in 1..Len(path) :
                    i # j => path[i] # path[j]
                /\ \A i \in 1..(Len(path) - 1) : AudioEdge(self, path[i], path[i + 1])

\* a chain through three or more nodes was found whose last step has two
\* parallel edges
C10_Witness ==
    /\ pc = "analyzed"
    /\ \E c \in 1..Len(chains) :
        LET path == chains[c].path
        IN  /\ Len(path) >= 3
            /\ \E e1 \in 1..Len(self.edges), e2 \in 1..Len(self.edges) :
                /\ e1 # e2
                /\ self.edges[e1].source = path[Len(path) - 1]
                /\ self.edges[e2].source = path[Len(path) - 1]
                /\ self.edges[e1].target = path[Len(path)]
                /\ self.edges[e2].target = path[Len(path)]

\* nodes reached from the members of S along Audio edges (S included)
RECURSIVE AudioClosure(_, _)
AudioClosure(g, S) ==
    LET T == S \cup {b \in 1..Len(g.nodes) : \E a \in S : AudioEdge(g, a, b)}
    IN  IF T = S THEN S ELSE AudioClosure(g, T)

\* a directed path of one or more Audio edges leads from a to b
AudioConnected(g, a, b) ==
    b \in AudioClosure(g, {x \in 1..Len(g.nodes) : AudioEdge(g, a, x)})

AnyEdge(g, a, b) ==
    \E e \in 1..Len(g.edges) : g.edges[e].source = a /\ g.edges[e].target = b

RECURSIVE EdgeClosure(_, _)
EdgeClosure(g, S) ==
    LET T == S \cup {b \in 1..Len(g.nodes) : \E a \in S : AnyEdge(g, a, b)}
    IN  IF T = S THEN S ELSE EdgeClosure(g, T)

\* a directed path of one or more edges of any type leads from a to b
Connected(g, a, b) ==
    b \in EdgeClosure(g, {x \in 1..Len(g.nodes) : AnyEdge(g, a, x)})

ChainsOf(s, t) == {c \in 1..Len(chains) : chains[c].source = s /\ chains[c].sink = t}

\* C11: analyze_signal_chains returns exactly one chain for each (source,
\* sink) pair joined by a directed path of Audio edges only, and no chain for
\* any other pair; a pair joined only by paths that contain a Control or
\* Message edge has no chain.
C11_OneChainPerAudioConnectedPair ==
    pc = "analyzed" =>
        /\ \A c \in 1..Len(chains) :
            in_seq(sources, chains[c].source) /\ in_seq(sinks, chains[c].sink)
        /\ \A i \in 1..Len(sources), j \in 1..Len(sinks) :
            Cardinality(ChainsOf(sources[i], sinks[j])) =
                IF AudioConnected(self, sources[i], sinks[j]) THEN 1 ELSE 0

\* a source and a sink joined by an Audio cable and, through a control box,
\* by a path that is enumerated first and is not Audio: the chain is the
\* direct one
C11_Witness ==
    /\ pc = "analyzed"
    /\ \E i \in 1..Len(sources), j \in 1..Len(sinks) :
        /\ AudioEdge(self, sources[i], sinks[j])
        /\ \E m \in 1..Len(self.nodes) :
            /\ self.nodes[m].object_type = "flonum"
            /\ AnyEdge(self, sources[i], m)
            /\ AnyEdge(self, m, sinks[j])
            /\ Head(all_simple_paths(self, sources[i], sinks[j])) = <<sources[i], m, sinks[j]>>
        /\ \E c \in ChainsOf(sources[i], sinks[j]) :
            chains[c].path = <<sources[i], sinks[j]>>

\* a source and a sink joined only through a control box have no chain
C11_WitnessControlOnly ==
    /\ pc = "analyzed"
    /\ \E i \in 1..Len(sources), j \in 1..Len(sinks) :
        /\ Connected(self, sources[i], sinks[j])
        /\ ~AudioConnected(self, sources[i], sinks[j])
        /\ ChainsOf(sources[i], sinks[j]) = {}

----------------------------------------------------------------------------
(* Spatial configuration analysis                                          *)
(* (crates/max2sc-analyzer/src/spatial_analysis.rs).                       *)
(*                                                                         *)
(* An f32 is [nan, num, den]: NaN, or the number num/den (den > 0).        *)
(* Angles are in degrees and distances in quarter metres; `to_radians` is  *)
(* the change of unit. The inputs are whole numbers of these units and     *)
(* lists of at most MaxLong speakers: on them every sum is exact in f32,   *)
(* a mean is exact whenever a deviation lies exactly on a tolerance, and   *)
(* otherwise the deviation misses the tolerance by more than 1/100 unit,   *)
(* far more than the rounding of one division, so the comparisons below    *)
(* have the outcome of the f32 comparisons. A panic of the code is the     *)
(* result Panicked.                                                        *)

F(v) == [nan |-> FALSE, num |-> v, den |-> 1]
NaN == [nan |-> TRUE, num |-> 0, den |-> 1]

Abs(x) == IF x < 0 THEN -x ELSE x

f32_add(a, b) ==
    IF a.nan \/ b.nan THEN NaN
    ELSE [nan |-> FALSE, num |-> a.num * b.den + b.num * a.den, den |-> a.den * b.den]

f32_sub(a, b) ==
    IF a.nan \/ b.nan THEN NaN
    ELSE [nan |-> FALSE, num |-> a.num * b.den - b.num * a.den, den |-> a.den * b.den]

f32_mul(a, b) ==
    IF a.nan \/ b.nan THEN NaN
    ELSE [nan |-> FALSE, num |-> a.num * b.num, den |-> a.den * b.den]

\* a / (n as f32); 0.0 / 0.0 is NaN, and no other division by zero occurs
f32_div_len(a, n) ==
    IF a.nan \/ n = 0 THEN NaN
    ELSE [nan |-> FALSE, num |-> a.num, den |-> a.den * n]

f32_abs(a) == IF a.nan THEN NaN ELSE [a EXCEPT !.num = Abs(a.num)]

\* a < b; false when either side is NaN
f32_lt(a, b) == ~a.nan /\ ~b.nan /\ a.num * b.den < b.num * a.den

\* f32::min and f32::max ignore a NaN operand
f32_min(a, b) == IF a.nan THEN b ELSE IF b.nan THEN a ELSE IF f32_lt(b, a) THEN b ELSE a
f32_max(a, b) == IF a.nan THEN b ELSE IF b.nan THEN a ELSE IF f32_lt(a, b) THEN b ELSE a

\* Iterator::sum::<f32>()
RECURSIVE f32_sum(_)
f32_sum(xs) == IF xs = <<>> THEN F(0) ELSE f32_add(Head(xs), f32_sum(Tail(xs)))

\* the tolerances of is_linear_array (degrees) and is_circular_array
\* (0.5 m in quarter metres)
ElevationTolerance == 10
DistanceTolerance == 2

Panicked == [kind |-> "panic"]

OscSpeaker(id, azimuth, elevation, distance, delay, gain) ==
    [id |-> id,
     position |-> [azimuth |-> azimuth, elevation |-> elevation, distance |-> distance],
     delay |-> delay, gain |-> gain]

OscSpeakerArray(bus_id, format, name, speaker_list) ==
    [bus_id |-> bus_id, format |-> format, name |-> name, speakers |-> speaker_list]

azimuths(speaker_list) == [i \in 1..Len(speaker_list) |-> speaker_list[i].position.azimuth]
elevations(speaker_list) == [i \in 1..Len(speaker_list) |-> speaker_list[i].position.elevation]
distances(speaker_list) == [i \in 1..Len(speaker_list) |-> speaker_list[i].position.distance]

calculate_average_distance(speaker_list) ==
    f32_div_len(f32_sum(distances(speaker_list)), Len(speaker_list))

is_linear_array(speaker_list) ==
    IF Len(speaker_list) < 3 THEN FALSE
    ELSE LET avg_elevation ==
                 f32_div_len(f32_sum(elevations(speaker_list)), Len(speaker_list))
         IN  \A i \in 1..Len(speaker_list) :
                 f32_lt(f32_abs(f32_sub(speaker_list[i].position.elevation, avg_elevation)),
                        F(ElevationTolerance))

is_circular_array(speaker_list) ==
    LET avg_distance == calculate_average_distance(speaker_list)
    IN  \A i \in 1..Len(speaker_list) :
            f32_lt(f32_abs(f32_sub(speaker_list[i].position.distance, avg_distance)),
                   F(DistanceTolerance))

\* fold(f32::INFINITY, min) and fold(f32::NEG_INFINITY, max); on angles that
\* are all NaN the folds keep the infinities and the span is -inf, which the
\* product with the mean distance never turns into a number: NaN stands for
\* that span
RECURSIVE fold_min(_, _)
fold_min(acc, xs) == IF xs = <<>> THEN acc ELSE fold_min(f32_min(acc, Head(xs)), Tail(xs))
RECURSIVE fold_max(_, _)
fold_max(acc, xs) == IF xs = <<>> THEN acc ELSE fold_max(f32_max(acc, Head(xs)), Tail(xs))

calculate_array_length(speaker_list) ==
    LET angles == azimuths(speaker_list)
        min_angle == fold_min(NaN, angles)
        max_angle == fold_max(NaN, angles)
        avg_distance == calculate_average_distance(speaker_list)
    IN  f32_mul(avg_distance, f32_sub(max_angle, min_angle))

\* a.partial_cmp(b).unwrap() inside sort_by: a sort of two or more angles
\* compares every one of them, and the comparison of a NaN is None
sort_panics(angles) == Len(angles) >= 2 /\ \E i \in 1..Len(angles) : angles[i].nan

\* insertion of x into an ascending list, after the elements equal to it
RECURSIVE insert_sorted(_, _)
insert_sorted(x, sorted) ==
    IF sorted = <<>> THEN <<x>>
    ELSE IF f32_lt(x, Head(sorted)) THEN <<x>> \o sorted
    ELSE <<Head(sorted)>> \o insert_sorted(x, Tail(sorted))

RECURSIVE sort_by_partial_cmp(_)
sort_by_partial_cmp(angles) ==
    IF angles = <<>> THEN <<>>
    ELSE insert_sorted(angles[Len(angles)],
                       sort_by_partial_cmp(SubSeq(angles, 1, Len(angles) - 1)))

\* the spacing, or Panicked
calculate_speaker_spacing(speaker_list) ==
    IF Len(speaker_list) < 2 THEN F(0)
    ELSE IF sort_panics(azimuths(speaker_list)) THEN Panicked
    ELSE LET angles == sort_by_partial_cmp(azimuths(speaker_list))
             total_span == f32_sub(angles[Len(angles)], angles[1])
             avg_distance == calculate_average_distance(speaker_list)
         IN  f32_mul(avg_distance, f32_div_len(total_span, Len(speaker_list) - 1))

\* the SpeakerArrayType, or Panicked
determine_array_type(speaker_list) ==
    IF Len(speaker_list) >= 16 /\ is_linear_array(speaker_list)
    THEN LET length == calculate_array_length(speaker_list)
             spacing == calculate_speaker_spacing(speaker_list)
         IN  IF spacing = Panicked THEN Panicked
             ELSE [kind |-> "Wfs", length |-> length, spacing |-> spacing]
    ELSE IF Len(speaker_list) >= 4 /\ is_circular_array(speaker_list)
    THEN [kind |-> "Ring", radius |-> calculate_average_distance(speaker_list)]
    ELSE [kind |-> "Irregular"]

\* WfsConfig::default()
WfsConfigDefault ==
    [prefilter_cutoff |-> F(0), distance_compensation |-> FALSE,
     amplitude_correction |-> FALSE, aliasing_frequency |-> F(0)]

NoWfsConfig == [some |-> FALSE]
SomeWfsConfig(c) == [some |-> TRUE, val |-> c]

\* analyze_speaker_array that gives every array the default wfs_config
analyze_speaker_array_wfs_config_for_all(array) ==
    LET speaker_list ==
            [i \in 1..Len(array.speakers) |->
                [id |-> array.speakers[i].id,
                 position |-> [azimuth |-> array.speakers[i].position.azimuth,
                               elevation |-> array.speakers[i].position.elevation,
                               distance |-> array.speakers[i].position.distance],
                 delay |-> array.speakers[i].delay,
                 gain |-> array.speakers[i].gain]]
    IN  [id |-> array.name,
         array_type |-> determine_array_type(speaker_list),
         speakers |-> speaker_list,
         wfs_config |-> SomeWfsConfig(WfsConfigDefault)]

\* one iteration of the loop of analyze_speaker_arrays
analyze_speaker_array(array) ==
    LET speaker_list ==
            [i \in 1..Len(array.speakers) |->
                [id |-> array.speakers[i].id,
                 position |-> [azimuth |-> array.speakers[i].position.azimuth,
                               elevation |-> array.speakers[i].position.elevation,
                               distance |-> array.speakers[i].position.distance],
                 delay |-> array.speakers[i].delay,
                 gain |-> array.speakers[i].gain]]
        array_type == determine_array_type(speaker_list)
    IN  [id |-> array.name,
         array_type |-> array_type,
         speakers |-> speaker_list,
         wfs_config |-> IF array_type.kind = "Wfs"
                        THEN SomeWfsConfig(WfsConfigDefault) ELSE NoWfsConfig]

analyze_speaker_arrays(osc) ==
    [i \in 1..Len(osc.speaker_arrays) |-> analyze_speaker_array(osc.speaker_arrays[i])]

\* char::is_whitespace on the characters of the inputs
is_whitespace(c) == c \in {" ", "\t", "\n"}

RECURSIVE token_len(_)
token_len(s) ==
    IF s = <<>> \/ is_whitespace(Head(s)) THEN 0 ELSE 1 + token_len(Tail(s))

\* str::split_whitespace, collected
RECURSIVE split_whitespace(_)
split_whitespace(s) ==
    IF s = <<>> THEN <<>>
    ELSE IF is_whitespace(Head(s)) THEN split_whitespace(Tail(s))
    ELSE LET n == token_len(s)
         IN  <<SubSeq(s, 1, n)>> \o split_whitespace(SubSeq(s, n + 1, Len(s)))

Digits == <<"0", "1", "2", "3", "4", "5", "6", "7", "8", "9">>
digit_value(c) == (CHOOSE d \in 1..10 : Digits[d] = c) - 1
is_digit(c) == \E d \in 1..10 : Digits[d] = c

RECURSIVE decimal_value(_)
decimal_value(ds) ==
    IF ds = <<>> THEN 0
    ELSE 10 * decimal_value(SubSeq(ds, 1, Len(ds) - 1)) + digit_value(ds[Len(ds)])

\* str::parse::<u32>().ok() on tokens of fewer than ten characters (which
\* cannot overflow): an optional '+' and one or more digits
parse_u32(tok) ==
    LET ds == IF tok # <<>> /\ Head(tok) = "+" THEN Tail(tok) ELSE tok
    IN  IF ds # <<>> /\ \A i \in 1..Len(ds) : is_digit(ds[i])
        THEN [some |-> TRUE, val |-> decimal_value(ds)]
        ELSE [some |-> FALSE, val |-> 0]

\* text.split_whitespace().nth(1).and_then(|s| s.parse().ok())
extract_hoa_order(text) ==
    LET tokens == split_whitespace(text)
    IN  IF Len(tokens) >= 2 THEN parse_u32(tokens[2]) ELSE [some |-> FALSE, val |-> 0]

extract_speaker_count(text) ==
    LET tokens == split_whitespace(text)
    IN  IF Len(tokens) >= 2 THEN parse_u32(tokens[2]) ELSE [some |-> FALSE, val |-> 0]

unwrap_or(opt, default) == IF opt.some THEN opt.val ELSE default

n_hoa_encoder == <<"s", "p", "a", "t", "5", ".", "h", "o", "a", ".", "e", "n", "c", "o", "d", "e", "r", "~">>
n_hoa_decoder == <<"s", "p", "a", "t", "5", ".", "h", "o", "a", ".", "d", "e", "c", "o", "d", "e", "r", "~">>
n_vbap == <<"s", "p", "a", "t", "5", ".", "v", "b", "a", "p", "~">>

Multichannel(n) == [tag |-> "Multichannel", channels |-> n]
Ambisonic(order, dimension) == [tag |-> "Ambisonic", order |-> order, dimension |-> dimension]

SpatialObject(content, object_type, format) ==
    [id |-> content.id, object_type |-> object_type,
     inputs |-> content.numinlets, outputs |-> content.numoutlets,
     format |-> format, parameters |-> <<>>]

\* the objects one box adds: none or one
spatial_objects_of(content) ==
    IF ~content.text.some THEN <<>>
    ELSE LET text == content.text.val
             tokens == split_whitespace(text)
             obj_name == IF tokens = <<>> THEN <<>> ELSE tokens[1]
         IN  IF obj_name = p_panoramix
             THEN <<SpatialObject(content, [tag |-> "Panoramix"],
                                  Multichannel(content.numoutlets))>>
             ELSE IF obj_name = n_hoa_encoder
             THEN LET order == unwrap_or(extract_hoa_order(text), 1)
                  IN  <<SpatialObject(content, [tag |-> "HoaEncoder", order |-> order],
                                      Ambisonic(order, 3))>>
             ELSE IF obj_name = n_hoa_decoder
             THEN LET order == unwrap_or(extract_hoa_order(text), 1)
                  IN  <<SpatialObject(content, [tag |-> "HoaDecoder", order |-> order],
                                      Multichannel(content.numoutlets))>>
             ELSE IF obj_name = n_vbap
             THEN LET num_speakers == unwrap_or(extract_speaker_count(text), 8)
                  IN  <<SpatialObject(content,
                                      [tag |-> "Vbap", num_speakers |-> num_speakers],
                                      Multichannel(num_speakers))>>
             ELSE IF starts_with(obj_name, p_spat5)
             THEN <<SpatialObject(content, [tag |-> "Generic", name |-> obj_name],
                                  Multichannel(content.numoutlets))>>
             ELSE <<>>

RECURSIVE analyze_spatial_objects(_)
analyze_spatial_objects(boxes) ==
    IF boxes = <<>> THEN <<>>
    ELSE spatial_objects_of(Head(boxes)) \o analyze_spatial_objects(Tail(boxes))

\* Iterator::max().unwrap_or(0) over the array sizes
RECURSIVE max_len(_)
max_len(arrays) ==
    IF arrays = <<>> THEN 0
    ELSE LET rest == max_len(Tail(arrays))
         IN  IF Len(Head(arrays).speakers) > rest THEN Len(Head(arrays).speakers) ELSE rest

\* determine_processing_method that tests for HOA objects first
determine_processing_method_hoa_first(c) ==
    IF \E i \in 1..Len(c.spatial_objects) :
           c.spatial_objects[i].object_type.tag \in {"HoaEncoder", "HoaDecoder"}
    THEN "Hoa"
    ELSE IF \E i \in 1..Len(c.speaker_arrays) : c.speaker_arrays[i].array_type.kind = "Wfs"
    THEN "Wfs"
    ELSE IF max_len(c.speaker_arrays) >= 4 THEN "Vbap"
    ELSE "Stereo"

determine_processing_method(c) ==
    LET has_wfs_array ==
            \E i \in 1..Len(c.speaker_arrays) : c.speaker_arrays[i].array_type.kind = "Wfs"
        has_hoa ==
            \E i \in 1..Len(c.spatial_objects) :
                c.spatial_objects[i].object_type.tag \in {"HoaEncoder", "HoaDecoder"}
        max_speakers == max_len(c.speaker_arrays)
    IN  IF has_wfs_array THEN "Wfs"
        ELSE IF has_hoa THEN "Hoa"
        ELSE IF max_speakers >= 4 THEN "Vbap"
        ELSE "Stereo"

\* Option<&OSCConfig>
NoOsc == [some |-> FALSE, speaker_arrays |-> <<>>]
SomeOsc(arrays) == [some |-> TRUE, speaker_arrays |-> arrays]

\* the SpatialConfig of analyze_spatial_config, or Panicked
analyze_spatial_config(p, osc) ==
    LET spatial_objects == analyze_spatial_objects(p.boxes)
        speaker_arrays == IF osc.some THEN analyze_speaker_arrays(osc) ELSE <<>>
        built == [spatial_objects |-> spatial_objects,
                  speaker_arrays |-> speaker_arrays,
                  processing_method |-> "Stereo"]
    IN  IF \E i \in 1..Len(speaker_arrays) : speaker_arrays[i].array_type = Panicked
        THEN Panicked
        ELSE [built EXCEPT !.processing_method = determine_processing_method(built)]

t_hoa_encoder_3 == <<"s", "p", "a", "t", "5", ".", "h", "o", "a", ".", "e", "n", "c", "o", "d", "e", "r", "~", " ", "3">>
t_hoa_encoder == <<"s", "p", "a", "t", "5", ".", "h", "o", "a", ".", "e", "n", "c", "o", "d", "e", "r", "~">>
t_hoa_decoder_2 == <<" ", " ", "s", "p", "a", "t", "5", ".", "h", "o", "a", ".", "d", "e", "c", "o", "d", "e", "r", "~", " ", "+", "2", " ", "@", "x">>
t_hoa_decoder_bad == <<"s", "p", "a", "t", "5", ".", "h", "o", "a", ".", "d", "e", "c", "o", "d", "e", "r", "~", " ", "2", ".", "0">>
t_hoa_rotate == <<"s", "p", "a", "t", "5", ".", "h", "o", "a", ".", "r", "o", "t", "a", "t", "e", "~", " ", "3">>
t_vbap_8 == <<"s", "p", "a", "t", "5", ".", "v", "b", "a", "p", "~", " ", "8">>
t_vbap == <<"s", "p", "a", "t", "5", ".", "v", "b", "a", "p", "~", " ", "-", "1">>

----------------------------------------------------------------------------
(* Inputs of the spatial analysis *)

MaxShort == 5       \* longest speaker list tried position by position
MaxLong == 17       \* longest speaker list tried around the Wfs threshold
MaxArrays == 2      \* most speaker arrays in one OSC configuration
MaxBoxes == 2       \* most boxes in one patch of the spatial analysis

Position(azimuth, elevation, distance) ==
    [azimuth |-> azimuth, elevation |-> elevation, distance |-> distance]

\* speakers 1..n at the given positions, as BusInfo::to_speaker_array numbers them
SpeakersAt(positions) ==
    [i \in 1..Len(positions) |->
        OscSpeaker(i, positions[i].azimuth, positions[i].elevation,
                   positions[i].distance, F(0), F(1))]

\* distances of 1 m, 1.5 m, 2 m or NaN on the level, and one raised speaker
\* whose azimuth is NaN
ShortPositions ==
    {Position(F(0), F(0), d) : d \in {F(4), F(6), F(8), NaN}}
    \cup {Position(NaN, F(20), F(4))}

ShortLists == {SpeakersAt(ps) : ps \in SeqsUpTo(ShortPositions, MaxShort)}

\* n speakers around the Wfs threshold: the first h at elevation 0 and
\* distance d1, the others at elevation e2 and distance d2, azimuths spread
\* out of order, one azimuth NaN when nan_at names a speaker
LongLists ==
    {SpeakersAt([i \in 1..n |->
                    Position(IF i = nan_at THEN NaN ELSE F((i * 100) % 360),
                             IF i <= h THEN F(0) ELSE e2,
                             IF i <= h THEN d1 ELSE d2)]) :
        n \in 15..MaxLong, h \in {0, 1, 8, 15}, nan_at \in {0, 1, 16},
        e2 \in {F(0), F(10), F(11), F(20), NaN},
        d1 \in {F(4), F(6)}, d2 \in {F(4), F(6), F(8)}}

\* the arrays of the configurations: empty, 3 speakers, a ring of 4, an
\* irregular 5, a level line of 16, and 16 speakers at one distance whose
\* elevations alternate between 0 and 20 degrees
ArrayChoices ==
    { <<>>,
      SpeakersAt([i \in 1..3 |-> Position(F(i * 90), F(0), F(4))]),
      SpeakersAt([i \in 1..4 |-> Position(F(i * 90), F(0), F(4))]),
      SpeakersAt([i \in 1..5 |-> Position(F(i * 60), F(0), IF i = 5 THEN F(8) ELSE F(4))]),
      SpeakersAt([i \in 1..16 |-> Position(F(i * 5), F(0), F(8))]),
      SpeakersAt([i \in 1..16 |-> Position(F(i * 20), F((i % 2) * 20), F(8))]) }

SpatialBoxes ==
    { Box("obj-1", "newobj", Some(t_hoa_encoder_3), 1, 16),
      Box("obj-2", "newobj", Some(t_hoa_decoder_2), 9, 8),
      Box("obj-3", "message", Some(t_hoa_decoder_bad), 1, 1),
      Box("obj-4", "newobj", Some(t_hoa_rotate), 16, 16),
      Box("obj-5", "newobj", Some(t_vbap_8), 1, 8),
      Box("obj-6", "newobj", Some(t_panoramix), 2, 8),
      Box("obj-7", "newobj", Some(t_cycle), 2, 1) }

----------------------------------------------------------------------------
(* The state machine of one call of analyze_spatial_config *)

GraphIdle ==
    /\ search = NotCalled
    /\ fs = NotCalled
    /\ self = new_graph
    /\ graph = new_graph
    /\ node_map = empty_map
    /\ k = 0
    /\ sources = <<>>
    /\ sinks = <<>>
    /\ chains = <<>>

SpatialLocals ==
    /\ config = NotCalled
    /\ ret = "none"
    /\ pc = "spatial_call"
    /\ GraphIdle
    /\ ConverterIdle

\* one array under either declared format label, no spatial boxes
InitArrays ==
    /\ \E speaker_list \in ShortLists \cup LongLists :
        \E format \in {"WFS", "VBAP"} :
            osc_config = SomeOsc(<<OscSpeakerArray(1, format, "main", speaker_list)>>)
    /\ patch = [boxes |-> <<>>, lines |-> <<>>]
    /\ SpatialLocals

\* configurations: up to MaxBoxes boxes with no, or up to MaxArrays arrays
InitConfigs ==
    /\ \E boxes \in SeqsUpTo(SpatialBoxes, MaxBoxes) :
        patch = [boxes |-> boxes, lines |-> <<>>]
    /\ \/ osc_config = NoOsc
       \/ \E lists \in SeqsUpTo(ArrayChoices, MaxArrays) :
            osc_config = SomeOsc([i \in 1..Len(lists) |->
                                     OscSpeakerArray(i, "", "array", lists[i])])
    /\ SpatialLocals

SpatialInit == InitArrays \/ InitConfigs

\* spatial_analysis.rs 8-32
AnalyzeSpatialConfig ==
    /\ pc = "spatial_call"
    /\ LET r == analyze_spatial_config(patch, osc_config)
       IN  IF r = Panicked
           THEN config' = config /\ ret' = "panic"
           ELSE config' = r /\ ret' = "Ok"
    /\ pc' = "spatial_returned"
    /\ UNCHANGED <<patch, osc_config, self, graph, node_map, k, sources, sinks, chains>>
    /\ UNCHANGED <<call, overflow_checks, result, search, fs>>

SpatialNext == AnalyzeSpatialConfig

SpecSpatial == SpatialInit /\ [][SpatialNext]_vars

----------------------------------------------------------------------------
(* Claims on the spatial analysis *)

Numbers(xs) == \A i \in 1..Len(xs) : ~xs[i].nan

RECURSIVE Total(_)
Total(xs) == IF xs = <<>> THEN 0 ELSE Head(xs).num + Total(Tail(xs))

\* every member of the list of whole numbers xs is less than tol away from
\* their mean
WithinOfMean(xs, tol) ==
    /\ Numbers(xs)
    /\ \A i \in 1..Len(xs) :
        LET away == Len(xs) * xs[i].num - Total(xs)
        IN  -tol * Len(xs) < away /\ away < tol * Len(xs)

ClaimedArrayKind(speaker_list) ==
    IF Len(speaker_list) >= 16 /\ WithinOfMean(elevations(speaker_list), 10)
    THEN "Wfs"
    ELSE IF Len(speaker_list) >= 4 /\ WithinOfMean(distances(speaker_list), 2)
    THEN "Ring"
    ELSE "Irregular"

\* C12: determine_array_type depends on the speaker list alone: it yields Wfs
\* iff the list has at least 16 speakers and every elevation is within 10
\* degrees of the mean elevation, otherwise Ring iff it has at least 4
\* speakers and every distance is within 0.5 m of the mean distance,
\* otherwise Irregular.
C12_ArrayTypeFromSpeakersAlone ==
    (pc = "spatial_returned" /\ osc_config.some) =>
        /\ ret = "Ok"
        /\ Len(config.speaker_arrays) = Len(osc_config.speaker_arrays)
        /\ \A i \in 1..Len(osc_config.speaker_arrays) :
            config.speaker_arrays[i].array_type.kind =
                ClaimedArrayKind(osc_config.speaker_arrays[i].speakers)

\* sixteen level speakers, one of them with a NaN azimuth: the sort of the
\* azimuths in calculate_speaker_spacing panics
C12_PanicReached ==
    /\ pc = "spatial_returned"
    /\ ret = "panic"
    /\ Len(osc_config.speaker_arrays) = 1
    /\ Len(osc_config.speaker_arrays[1].speakers) = 16
    /\ ClaimedArrayKind(osc_config.speaker_arrays[1].speakers) = "Wfs"

\* where the call returns, the classification is the one of C12
C12_ArrayTypeWhereReturned ==
    (pc = "spatial_returned" /\ osc_config.some /\ ret = "Ok") =>
        /\ Len(config.speaker_arrays) = Len(osc_config.speaker_arrays)
        /\ \A i \in 1..Len(osc_config.speaker_arrays) :
            config.speaker_arrays[i].array_type.kind =
                ClaimedArrayKind(osc_config.speaker_arrays[i].speakers)

ArrayKinds == {config.speaker_arrays[i].array_type.kind : i \in 1..Len(config.speaker_arrays)}
ArraySizes == {Len(config.speaker_arrays[i].speakers) : i \in 1..Len(config.speaker_arrays)}
ObjectTags == {config.spatial_objects[i].object_type.tag : i \in 1..Len(config.spatial_objects)}

\* the method by priority, from what the configuration holds in any order
ClaimedMethod ==
    IF "Wfs" \in ArrayKinds THEN "Wfs"
    ELSE IF "HoaEncoder" \in ObjectTags \/ "HoaDecoder" \in ObjectTags THEN "Hoa"
    ELSE IF \E n \in ArraySizes : n >= 4 THEN "Vbap"
    ELSE "Stereo"

\* C13: in the configuration analyze_spatial_config returns, processing_method
\* is Wfs if any array is classified Wfs, otherwise Hoa if any spatial object
\* is an HOA encoder or decoder, otherwise Vbap if the largest array has at
\* least 4 speakers, otherwise Stereo, whatever the order of the arrays and
\* of the objects.
C13_MethodByPriority ==
    (pc = "spatial_returned" /\ ret = "Ok") =>
        config.processing_method = ClaimedMethod

\* a configuration with an HOA encoder, a ring array first and a Wfs array
\* second was given the method Wfs
C13_Witness ==
    /\ pc = "spatial_returned"
    /\ ret = "Ok"
    /\ config.processing_method = "Wfs"
    /\ "HoaEncoder" \in ObjectTags
    /\ Len(config.speaker_arrays) = 2
    /\ config.speaker_arrays[1].array_type.kind = "Ring"
    /\ config.speaker_arrays[2].array_type.kind = "Wfs"

----------------------------------------------------------------------------
(* The HOA converter (crates/max2sc-codegen/src/converters/hoa.rs) and the *)
(* objects it builds (crates/max2sc-core/src/mapping.rs).                  *)
(*                                                                         *)
(* A u32 is <<low, high>>, two 16-bit limbs, and an i32 is the same two    *)
(* limbs read in two's complement. `+`, `*` and `pow` on u32 panic on      *)
(* overflow in a build with overflow checks (the dev and test profiles)    *)
(* and wrap in a build without them (the release profile):                 *)
(* overflow_checks is the build at hand.                                   *)

Limb == 65536

\* the u32 of a number below 2^31
u32_of(n) == <<n % Limb, n \div Limb>>
u32_MAX == <<Limb - 1, Limb - 1>>

u32_lt(a, b) == a[2] < b[2] \/ (a[2] = b[2] /\ a[1] < b[1])

\* the exact product of two limbs, as two limbs
mul16(x, y) ==
    LET p0 == x * (y % 256)
        p1 == x * (y \div 256)
        low == p0 + 256 * (p1 % 256)
    IN  <<low % Limb, (low \div Limb) + (p1 \div 256)>>

\* a + b: the wrapped sum, and whether the sum left the u32 range
checked_add(a, b) ==
    LET s0 == a[1] + b[1]
        s1 == a[2] + b[2] + (s0 \div Limb)
    IN  [overflow |-> s1 >= Limb, value |-> <<s0 % Limb, s1 % Limb>>]

\* a * b: the wrapped product, and whether the product left the u32 range
checked_mul(a, b) ==
    LET m00 == mul16(a[1], b[1])
        m01 == mul16(a[1], b[2])
        m10 == mul16(a[2], b[1])
        m11 == mul16(a[2], b[2])
        c1 == m00[2] + m01[1] + m10[1]
    IN  [overflow |-> (c1 \div Limb) + m01[2] + m10[2] + m11[1] + m11[2] > 0,
         value |-> <<m00[1], c1 % Limb>>]

\* (order + 1).pow(2): pow(2) is one multiplication of the base by itself
order_plus_one_squared(order) ==
    LET sum == checked_add(order, u32_of(1))
        square == checked_mul(sum.value, sum.value)
    IN  [overflow |-> sum.overflow \/ square.overflow, value |-> square.value]

\* `v as i32` keeps the bits
as_i32(v) == v
i32_negative(x) == x[2] >= Limb \div 2

\* ((n as f32 / d).sqrt() as u32).max(lo).min(hi) for d a power of two and
\* hi < 90: below 2^16 the conversion and the quotient are exact and the
\* rounded root has the integer part of the real root; from 2^16 on the
\* root is above 90 and the result is hi
sqrt_clamped(n, d, lo, hi) ==
    IF n[2] > 0 THEN hi
    ELSE LET root == CHOOSE r \in 0..255 : d * r * r <= n[1] /\ n[1] < d * (r + 1) * (r + 1)
             raised == IF root > lo THEN root ELSE lo
         IN  IF raised < hi THEN raised ELSE hi

calculate_optimal_order(array) ==
    u32_of(sqrt_clamped(u32_of(Len(array.speakers)), 4, 1, 7))

\* calculate_recommended_order with the estimate of calculate_optimal_order
calculate_recommended_order_as_optimal(num_speakers) ==
    u32_of(sqrt_clamped(num_speakers, 4, 1, 7))

calculate_recommended_order(num_speakers) ==
    u32_of(sqrt_clamped(num_speakers, 8, 1, 5))

\* the HoaValidationResult, or Panicked
validate_hoa_config(order, num_speakers, checks) ==
    LET squared == order_plus_one_squared(order)
        min_speakers == squared.value
        doubled == checked_mul(min_speakers, u32_of(2))
        recommended_speakers == doubled.value
    IN  IF checks /\ (squared.overflow \/ doubled.overflow) THEN Panicked
        ELSE [is_valid |-> ~u32_lt(num_speakers, min_speakers),
              warnings |->
                  IF ~u32_lt(num_speakers, min_speakers)
                     /\ u32_lt(num_speakers, recommended_speakers)
                  THEN <<[message |-> "works best with", order |-> order,
                          speakers |-> recommended_speakers, available |-> num_speakers]>>
                  ELSE <<>>,
              errors |->
                  IF u32_lt(num_speakers, min_speakers)
                  THEN <<[message |-> "requires at least", order |-> order,
                          speakers |-> min_speakers, available |-> num_speakers]>>
                  ELSE <<>>,
              recommended_order |-> calculate_recommended_order(num_speakers)]

\* SCValue
SCInt(v) == [tag |-> "Int", v |-> v]
SCFloat(f) == [tag |-> "Float", v |-> f]
SCString(s) == [tag |-> "String", v |-> s]
SCSymbol(s) == [tag |-> "Symbol", v |-> s]
SCArray(items) == [tag |-> "Array", v |-> items]

\* impl From<u32> for SCValue
SCValue_from_u32(v) == SCInt(as_i32(v))

\* SCObject::new(class_name).with_method("ar") with the arguments and the
\* properties pushed in order
SCObject_ar(class_name, arg_list, property_list) ==
    [class_name |-> class_name, args |-> arg_list, method |-> Some("ar"),
     properties |-> property_list]

Ok(v) == [ok |-> TRUE, val |-> v]
Err(err) == [ok |-> FALSE, err |-> err]

generate_foa_2d_encoder ==
    Ok(SCObject_ar("FoaEncode",
        <<SCSymbol("input"), SCSymbol("azimuth")>>,
        <<<<"encoder_type", SCString("omni")>>, <<"dimension", SCString("2D")>>,
          <<"order", SCInt(u32_of(1))>>, <<"channels", SCInt(u32_of(3))>>,
          <<"comment", SCString("FOA 2D encoder")>>>>))

generate_foa_3d_encoder ==
    Ok(SCObject_ar("FoaEncode",
        <<SCSymbol("input"), SCSymbol("azimuth"), SCSymbol("elevation")>>,
        <<<<"encoder_type", SCString("omni")>>, <<"dimension", SCString("3D")>>,
          <<"order", SCInt(u32_of(1))>>, <<"channels", SCInt(u32_of(4))>>,
          <<"comment", SCString("FOA 3D encoder")>>>>))

\* the object, or Panicked
generate_hoa_3d_encoder(order, checks) ==
    LET squared == order_plus_one_squared(order)
        num_channels == squared.value
    IN  IF checks /\ squared.overflow THEN Panicked
        ELSE Ok(SCObject_ar("HoaEncode",
                 <<SCValue_from_u32(order), SCSymbol("input"), SCSymbol("azimuth"),
                   SCSymbol("elevation")>>,
                 <<<<"dimension", SCString("3D")>>,
                   <<"order", SCValue_from_u32(order)>>,
                   <<"channels", SCValue_from_u32(num_channels)>>,
                   <<"comment", SCString(<<"HOA 3D encoder, order {}, {} channels",
                                           order, num_channels>>)>>>>))

generate_hoa_encoder(order, dimension, checks) ==
    IF order = u32_of(1) /\ dimension = u32_of(2) THEN generate_foa_2d_encoder
    ELSE IF order = u32_of(1) /\ dimension = u32_of(3) THEN generate_foa_3d_encoder
    ELSE IF dimension = u32_of(3) THEN generate_hoa_3d_encoder(order, checks)
    ELSE Err([tag |-> "UnsupportedObject", order |-> order, dimension |-> dimension])

decoder_method(decoder_type) ==
    CASE decoder_type = "Basic" -> "basic"
      [] decoder_type = "MaxRe" -> "maxRe"
      [] decoder_type = "InPhase" -> "inPhase"
      [] decoder_type = "Controlled" -> "controlled"
      [] decoder_type = "Binaural" -> "binaural"

generate_speaker_position_matrix(array) ==
    SCArray([i \in 1..Len(array.speakers) |->
                SCArray(<<SCFloat(array.speakers[i].position.azimuth),
                          SCFloat(array.speakers[i].position.elevation),
                          SCFloat(array.speakers[i].position.distance)>>)])

generate_foa_decoder(array, decoder_type) ==
    LET num_speakers == u32_of(Len(array.speakers))
    IN  Ok(SCObject_ar("FoaDecode",
            <<SCSymbol("encoded_input"), SCSymbol("decoder_matrix")>>,
            <<<<"decoder_type", SCString(decoder_method(decoder_type))>>,
              <<"num_speakers", SCInt(num_speakers)>>,
              <<"speaker_positions", generate_speaker_position_matrix(array)>>,
              <<"order", SCInt(u32_of(1))>>,
              <<"comment", SCString(<<"FOA decoder: {} method, {} speakers",
                                      decoder_method(decoder_type), num_speakers>>)>>>>))

\* the object, or Panicked
generate_hoa_decoder_matrix(order, num_speakers, decoder_type, checks) ==
    LET squared == order_plus_one_squared(order)
        num_channels == squared.value
    IN  IF checks /\ squared.overflow THEN Panicked
        ELSE Ok(SCObject_ar("HoaDecode",
                 <<SCValue_from_u32(order), SCValue_from_u32(num_speakers),
                   SCSymbol("encoded_input"), SCSymbol("decoder_matrix")>>,
                 <<<<"decoder_type", SCString(decoder_method(decoder_type))>>,
                   <<"channels", SCValue_from_u32(num_channels)>>,
                   <<"comment", SCString(<<"HOA decoder: order {}, {} method, {} speakers",
                                           order, decoder_method(decoder_type),
                                           num_speakers>>)>>>>))

generate_hoa_decoder(order, array, decoder_type, checks) ==
    LET num_speakers == u32_of(Len(array.speakers))
    IN  IF order = u32_of(1) THEN generate_foa_decoder(array, decoder_type)
        ELSE generate_hoa_decoder_matrix(order, num_speakers, decoder_type, checks)

\* spatial_analysis::SpeakerArray
SpeakerArray(id, array_type, speaker_list, wfs_config) ==
    [id |-> id, array_type |-> array_type, speakers |-> speaker_list,
     wfs_config |-> wfs_config]

----------------------------------------------------------------------------
(* Inputs of the HOA converter *)

MaxOrder == 8       \* largest order tried besides the orders near an overflow
MaxCount == 40      \* largest speaker count tried besides the threshold counts

\* 46340 is the first order whose channel count reaches 2^31, 65535 the
\* first whose channel count leaves the u32 range
Orders ==
    {u32_of(i) : i \in 0..MaxOrder}
    \cup {u32_of(46339), u32_of(46340), u32_of(65534), u32_of(65535), u32_of(65536),
          u32_MAX}

\* counts around 4 r^2, 8 r^2, (order + 1)^2 and 2 (order + 1)^2
SmallThresholdCounts ==
    {49, 50, 63, 64, 65, 71, 72, 73, 80, 81, 82, 97, 98, 99, 100, 101, 127, 128, 129,
     143, 144, 145, 161, 162, 163, 195, 196, 197, 199, 200, 201, 287, 288, 289}

Counts ==
    {u32_of(i) : i \in 0..MaxCount}
    \cup {u32_of(i) : i \in SmallThresholdCounts}
    \cup {u32_of(65535), u32_of(65536), <<Limb - 1, Limb \div 2 - 1>>, <<0, Limb \div 2>>,
          <<0, Limb - 2>>, <<1, Limb - 2>>, u32_MAX}

Dimensions == {u32_of(i) : i \in 0..4} \cup {u32_MAX}

DecoderTypes == {"Basic", "MaxRe", "InPhase", "Controlled", "Binaural"}

\* n speakers on a ring of 3 m, as the test suite builds them
RingOf(n) ==
    SpeakerArray("ring", [kind |-> "Ring", radius |-> F(12)],
        SpeakersAt([i \in 1..n |-> Position(F(((i - 1) * 45) % 360), F(0), F(12))]),
        NoWfsConfig)

HoaArrays == {RingOf(n) : n \in {0, 4, 8, 16}}

----------------------------------------------------------------------------
(* The state machine of one call into the HOA converter *)

SpatialIdle ==
    /\ patch = [boxes |-> <<>>, lines |-> <<>>]
    /\ osc_config = NotCalled
    /\ config = NotCalled

ConverterLocals ==
    /\ result = NotCalled
    /\ ret = "none"
    /\ pc = "converter_call"
    /\ overflow_checks \in BOOLEAN
    /\ GraphIdle
    /\ SpatialIdle

HoaInit ==
    /\ \/ \E order \in Orders, num_speakers \in Counts :
            call = [fn |-> "validate_hoa_config", order |-> order,
                    num_speakers |-> num_speakers]
       \/ \E order \in Orders, dimension \in Dimensions :
            call = [fn |-> "generate_hoa_encoder", order |-> order,
                    dimension |-> dimension]
       \/ \E order \in Orders, array \in HoaArrays, decoder_type \in DecoderTypes :
            call = [fn |-> "generate_hoa_decoder", order |-> order, array |-> array,
                    decoder_type |-> decoder_type]
       \/ \E n \in (0..MaxCount) \cup SmallThresholdCounts :
            call = [fn |-> "calculate_optimal_order", array |-> RingOf(n)]
    /\ ConverterLocals

\* what a call leaves after it: the value returned, or the panic
Returns(value) ==
    /\ result' = IF value = Panicked THEN result ELSE value
    /\ ret' = IF value = Panicked THEN "panic" ELSE "returned"
    /\ pc' = "converter_returned"
    /\ UNCHANGED <<call, overflow_checks, patch, osc_config, config, self, graph,
                   node_map, k, sources, sinks, chains, search, fs>>

\* hoa.rs 352-376
ValidateHoaConfig ==
    /\ pc = "converter_call"
    /\ call.fn = "validate_hoa_config"
    /\ Returns(validate_hoa_config(call.order, call.num_speakers, overflow_checks))

\* hoa.rs 11-21
GenerateHoaEncoder ==
    /\ pc = "converter_call"
    /\ call.fn = "generate_hoa_encoder"
    /\ Returns(generate_hoa_encoder(call.order, call.dimension, overflow_checks))

\* hoa.rs 70-81
GenerateHoaDecoder ==
    /\ pc = "converter_call"
    /\ call.fn = "generate_hoa_decoder"
    /\ Returns(generate_hoa_decoder(call.order, call.array, call.decoder_type,
                                    overflow_checks))

\* hoa.rs 340-349
CalculateOptimalOrder ==
    /\ pc = "converter_call"
    /\ call.fn = "calculate_optimal_order"
    /\ Returns(calculate_optimal_order(call.array))

HoaNext ==
    ValidateHoaConfig \/ GenerateHoaEncoder \/ GenerateHoaDecoder \/ CalculateOptimalOrder

SpecHoa == HoaInit /\ [][HoaNext]_vars

----------------------------------------------------------------------------
(* Claims on the HOA converter *)

\* a >= b for two u32
AtLeast(a, b) == a[2] > b[2] \/ (a[2] = b[2] /\ a[1] >= b[1])

\* order + 1 is below 2^16, so that its square is a u32
SquareFits(order) == order[2] = 0 /\ order[1] + 1 < Limb

\* (order + 1)^2 as a number, for such an order
Square(order) == mul16(order[1] + 1, order[1] + 1)

\* n >= (order + 1)^2 over the integers
EnoughSpeakers(order, n) == SquareFits(order) /\ AtLeast(n, Square(order))

\* n < 2 (order + 1)^2 over the integers
BelowTwice(order, n) ==
    \/ ~SquareFits(order)
    \/ Square(order)[2] >= Limb \div 2
    \/ LET sq == Square(order)
           twice == <<(2 * sq[1]) % Limb, 2 * sq[2] + ((2 * sq[1]) \div Limb)>>
       IN  ~AtLeast(n, twice)

ValidateReturned == pc = "converter_returned" /\ call.fn = "validate_hoa_config"

\* C14: for every u32 order and speaker count, validate_hoa_config returns
\* normally, is_valid is true exactly when n >= (order+1)^2 over the integers,
\* there is an error message exactly when the configuration is invalid, and a
\* warning exactly when (order+1)^2 <= n < 2 (order+1)^2.
C14_ValidIffEnoughSpeakers ==
    ValidateReturned =>
        /\ ret = "returned"
        /\ result.is_valid <=> EnoughSpeakers(call.order, call.num_speakers)
        /\ result.errors # <<>> <=> ~result.is_valid
        /\ result.warnings # <<>> <=>
            (EnoughSpeakers(call.order, call.num_speakers)
             /\ BelowTwice(call.order, call.num_speakers))

\* order 65535 with no speaker at all was found valid by a build that wraps
C14_WrapReached ==
    /\ ValidateReturned
    /\ call.order = u32_of(65535)
    /\ call.num_speakers = u32_of(0)
    /\ ~overflow_checks
    /\ ret = "returned"
    /\ result.is_valid

\* the same call panicked in a build that checks overflow
C14_PanicReached ==
    /\ ValidateReturned
    /\ call.order = u32_of(65535)
    /\ overflow_checks
    /\ ret = "panic"

\* for the orders whose doubled minimum is a u32 (up to 46339) the report is
\* the one of C14 in either build
C14_HoldsBelowOverflow ==
    (ValidateReturned /\ SquareFits(call.order) /\ Square(call.order)[2] < Limb \div 2) =>
        /\ ret = "returned"
        /\ result.is_valid <=> EnoughSpeakers(call.order, call.num_speakers)
        /\ result.errors # <<>> <=> ~result.is_valid
        /\ result.warnings # <<>> <=>
            (EnoughSpeakers(call.order, call.num_speakers)
             /\ BelowTwice(call.order, call.num_speakers))

Declares(object, name, value) ==
    \E i \in 1..Len(object.properties) : object.properties[i] = <<name, value>>

\* the SCValue that is the integer (order + 1)^2
ChannelCount(order, value) ==
    /\ SquareFits(order)
    /\ Square(order)[2] < Limb \div 2
    /\ value = [tag |-> "Int", v |-> Square(order)]

MoreThanOne(order) == order[2] > 0 \/ order[1] > 1

EncoderReturned == pc = "converter_returned" /\ call.fn = "generate_hoa_encoder"
DecoderReturned == pc = "converter_returned" /\ call.fn = "generate_hoa_decoder"

\* C18: for every dimension generate_hoa_encoder(1, dimension) succeeds with
\* FoaEncode declaring 4 channels, and generate_hoa_decoder(1, ..) yields
\* FoaDecode; for order > 1 and dimension 3 the encoder is HoaEncode and the
\* decoder HoaDecode, each declaring channels = (order+1)^2.
C18_DispatchOnOrderFirst ==
    /\ (EncoderReturned /\ call.order = u32_of(1)) =>
        /\ ret = "returned"
        /\ result.ok
        /\ result.val.class_name = "FoaEncode"
        /\ Declares(result.val, "channels", [tag |-> "Int", v |-> u32_of(4)])
    /\ (EncoderReturned /\ MoreThanOne(call.order) /\ call.dimension = u32_of(3)) =>
        /\ ret = "returned"
        /\ result.ok
        /\ result.val.class_name = "HoaEncode"
        /\ \E i \in 1..Len(result.val.properties) :
            /\ result.val.properties[i][1] = "channels"
            /\ ChannelCount(call.order, result.val.properties[i][2])
    /\ (DecoderReturned /\ call.order = u32_of(1)) =>
        /\ ret = "returned"
        /\ result.ok
        /\ result.val.class_name = "FoaDecode"
    /\ (DecoderReturned /\ MoreThanOne(call.order)) =>
        /\ ret = "returned"
        /\ result.ok
        /\ result.val.class_name = "HoaDecode"
        /\ \E i \in 1..Len(result.val.properties) :
            /\ result.val.properties[i][1] = "channels"
            /\ ChannelCount(call.order, result.val.properties[i][2])

\* order 1 in two dimensions gave the 3-channel encoder
C18_ThreeChannelsReached ==
    /\ EncoderReturned
    /\ call.order = u32_of(1)
    /\ call.dimension = u32_of(2)
    /\ result.ok
    /\ Declares(result.val, "channels", [tag |-> "Int", v |-> u32_of(3)])

\* order 1 in four dimensions was refused
C18_RefusedReached ==
    /\ EncoderReturned
    /\ call.order = u32_of(1)
    /\ call.dimension = u32_of(4)
    /\ ~result.ok

\* order 46340 in three dimensions declares a negative channel count
C18_NegativeChannelsReached ==
    /\ EncoderReturned
    /\ call.order = u32_of(46340)
    /\ call.dimension = u32_of(3)
    /\ result.ok
    /\ \E i \in 1..Len(result.val.properties) :
        /\ result.val.properties[i][1] = "channels"
        /\ i32_negative(result.val.properties[i][2].v)

\* what the dispatch does: order 1 gives FoaEncode with 3 channels in two
\* and 4 channels in three dimensions and is refused in any other; another
\* order up to 46339 in three dimensions gives HoaEncode and, for any array,
\* HoaDecode with (order+1)^2 channels; order 1 decodes with FoaDecode
C18_DispatchOnOrderAndDimension ==
    /\ (EncoderReturned /\ call.order = u32_of(1)) =>
        /\ ret = "returned"
        /\ result.ok <=> call.dimension \in {u32_of(2), u32_of(3)}
        /\ result.ok =>
            /\ result.val.class_name = "FoaEncode"
            /\ Declares(result.val, "channels",
                        [tag |-> "Int",
                         v |-> IF call.dimension = u32_of(2) THEN u32_of(3) ELSE u32_of(4)])
    /\ (EncoderReturned /\ call.order # u32_of(1) /\ call.dimension = u32_of(3)
        /\ SquareFits(call.order) /\ Square(call.order)[2] < Limb \div 2) =>
        /\ ret = "returned"
        /\ result.ok
        /\ result.val.class_name = "HoaEncode"
        /\ Declares(result.val, "channels", [tag |-> "Int", v |-> Square(call.order)])
    /\ (DecoderReturned /\ call.order = u32_of(1)) =>
        /\ ret = "returned"
        /\ result.ok
        /\ result.val.class_name = "FoaDecode"
    /\ (DecoderReturned /\ call.order # u32_of(1)
        /\ SquareFits(call.order) /\ Square(call.order)[2] < Limb \div 2) =>
        /\ ret = "returned"
        /\ result.ok
        /\ result.val.class_name = "HoaDecode"
        /\ Declares(result.val, "channels", [tag |-> "Int", v |-> Square(call.order)])

\* n < x for a u32 n and a number x below 2^16
Below(n, x) == n[2] = 0 /\ n[1] < x

\* the integer part of sqrt(n / d), kept within lo..hi
ClampedRoot(n, d, lo, hi) ==
    CHOOSE c \in lo..hi :
        \/ c = lo /\ Below(n, d * (lo + 1) * (lo + 1))
        \/ c = hi /\ ~Below(n, d * hi * hi)
        \/ lo < c /\ c < hi /\ ~Below(n, d * c * c) /\ Below(n, d * (c + 1) * (c + 1))

OptimalReturned == pc = "converter_returned" /\ call.fn = "calculate_optimal_order"

\* C19: for every speaker count n, 1 <= recommended_order(n) <=
\* calculate_optimal_order(n) <= 7, where calculate_optimal_order is
\* floor(sqrt(n/4)) kept within [1,7] and the recommended order that
\* validate_hoa_config returns is floor(sqrt(n/8)) kept within [1,5],
\* whatever the order argument.
C19_OrdersWithinBounds ==
    /\ (ValidateReturned /\ ret = "returned") =>
        LET n == call.num_speakers
        IN  /\ result.recommended_order = u32_of(ClampedRoot(n, 8, 1, 5))
            /\ 1 <= ClampedRoot(n, 8, 1, 5)
            /\ ClampedRoot(n, 8, 1, 5) <= ClampedRoot(n, 4, 1, 7)
            /\ ClampedRoot(n, 4, 1, 7) <= 7
    /\ OptimalReturned =>
        LET n == u32_of(Len(call.array.speakers))
        IN  /\ ret = "returned"
            /\ result = u32_of(ClampedRoot(n, 4, 1, 7))
            /\ 1 <= ClampedRoot(n, 8, 1, 5)
            /\ ClampedRoot(n, 8, 1, 5) <= ClampedRoot(n, 4, 1, 7)
            /\ ClampedRoot(n, 4, 1, 7) <= 7

\* 199 speakers under order 65535 in a build that wraps: the recommended
\* order is 4, one below the cap, while the optimal order is at its cap
C19_Witness ==
    /\ ValidateReturned
    /\ ret = "returned"
    /\ call.order = u32_of(65535)
    /\ call.num_speakers = u32_of(199)
    /\ result.recommended_order = u32_of(4)
    /\ ClampedRoot(call.num_speakers, 4, 1, 7) = 7

----------------------------------------------------------------------------
(* The VBAP converter (crates/max2sc-codegen/src/converters/vbap.rs) *)

\* a % m for f32 a and a whole m > 0: the remainder has the sign of a
f32_rem(a, m) ==
    IF a.nan THEN NaN
    ELSE [nan |-> FALSE,
          num |-> IF a.num >= 0 THEN a.num % (m * a.den) ELSE -((-a.num) % (m * a.den)),
          den |-> a.den]

\* for i in 1..angles.len() { total_spacing += angles[i] - angles[i - 1] }
RECURSIVE spacing_sum(_, _, _)
spacing_sum(angles, i, total_spacing) ==
    IF i > Len(angles) THEN total_spacing
    ELSE spacing_sum(angles, i + 1, f32_add(total_spacing, f32_sub(angles[i], angles[i - 1])))

\* calculate_optimal_spread without the wrap-around spacing
calculate_optimal_spread_no_wrap(array) ==
    IF Len(array.speakers) < 2 THEN F(0)
    ELSE IF sort_panics(azimuths(array.speakers)) THEN Panicked
    ELSE LET angles == sort_by_partial_cmp(azimuths(array.speakers))
         IN  f32_div_len(spacing_sum(angles, 2, F(0)), Len(array.speakers))

\* the spread, or Panicked
calculate_optimal_spread(array) ==
    IF Len(array.speakers) < 2 THEN F(0)
    ELSE IF sort_panics(azimuths(array.speakers)) THEN Panicked
    ELSE LET angles == sort_by_partial_cmp(azimuths(array.speakers))
             between == spacing_sum(angles, 2, F(0))
             wrap_around ==
                 f32_rem(f32_sub(f32_add(F(360), angles[1]), angles[Len(angles)]), 360)
             total_spacing == f32_add(between, wrap_around)
         IN  f32_div_len(total_spacing, Len(array.speakers))

\* the warnings of the pairs (i, j), (i, j + 1), ... in the order of the two
\* loops; the message carries the zero-based indices
RECURSIVE close_speaker_warnings(_, _, _)
close_speaker_warnings(speaker_list, i, j) ==
    IF i > Len(speaker_list) THEN <<>>
    ELSE IF j > Len(speaker_list) THEN close_speaker_warnings(speaker_list, i + 1, i + 2)
    ELSE LET angle_diff == f32_abs(f32_sub(speaker_list[i].position.azimuth,
                                           speaker_list[j].position.azimuth))
         IN  (IF f32_lt(angle_diff, F(10))
              THEN <<[message |-> "very close", i |-> i - 1, j |-> j - 1,
                      angle_diff |-> angle_diff]>>
              ELSE <<>>)
             \o close_speaker_warnings(speaker_list, i, j + 1)

\* the VbapValidationResult, or Panicked
validate_speaker_setup(array) ==
    IF Len(array.speakers) < 3
    THEN [is_valid |-> FALSE, warnings |-> <<>>,
          errors |-> <<"VBAP requires at least 3 speakers">>,
          optimal_spread |-> F(0)]
    ELSE LET optimal_spread == calculate_optimal_spread(array)
         IN  IF optimal_spread = Panicked THEN Panicked
             ELSE [is_valid |-> TRUE,
                   warnings |-> close_speaker_warnings(array.speakers, 1, 2),
                   errors |-> <<>>,
                   optimal_spread |-> optimal_spread]

----------------------------------------------------------------------------
(* Inputs and state machine of one call into the VBAP converter *)

MaxSpeakers == 4    \* longest speaker list tried azimuth by azimuth

VbapAzimuths == {F(0), F(5), F(120), F(240), F(355), F(360), F(-175), NaN}

IrregularOf(azimuth_list) ==
    SpeakerArray("vbap", [kind |-> "Irregular"],
        SpeakersAt([i \in 1..Len(azimuth_list) |-> Position(azimuth_list[i], F(0), F(12))]),
        NoWfsConfig)

\* the ring of 8 of the test suite, in order and out of order
ShuffledRing ==
    IrregularOf(<<F(225), F(0), F(315), F(90), F(45), F(270), F(135), F(180)>>)

VbapArrays ==
    {IrregularOf(azimuth_list) : azimuth_list \in SeqsUpTo(VbapAzimuths, MaxSpeakers)}
    \cup {RingOf(8), ShuffledRing}

VbapInit ==
    /\ \E array \in VbapArrays :
        \/ call = [fn |-> "validate_speaker_setup", array |-> array]
        \/ call = [fn |-> "calculate_optimal_spread", array |-> array]
    /\ ConverterLocals

\* vbap.rs 279-317
ValidateSpeakerSetup ==
    /\ pc = "converter_call"
    /\ call.fn = "validate_speaker_setup"
    /\ Returns(validate_speaker_setup(call.array))

\* vbap.rs 333-351
CalculateOptimalSpread ==
    /\ pc = "converter_call"
    /\ call.fn = "calculate_optimal_spread"
    /\ Returns(calculate_optimal_spread(call.array))

VbapNext == ValidateSpeakerSetup \/ CalculateOptimalSpread

SpecVbap == VbapInit /\ [][VbapNext]_vars

----------------------------------------------------------------------------
(* Claims on the VBAP converter *)

SetupReturned == pc = "converter_returned" /\ call.fn = "validate_speaker_setup"
SpreadReturned == pc = "converter_returned" /\ call.fn = "calculate_optimal_spread"

\* C15: validate_speaker_setup returns a report and never panics, whatever
\* the array; is_valid is false exactly when the array has fewer than 3
\* speakers, errors is non-empty exactly when is_valid is false, and warnings
\* about close speakers never make a setup invalid.
C15_ReportNeverPanic ==
    SetupReturned =>
        /\ ret = "returned"
        /\ result.is_valid <=> Len(call.array.speakers) >= 3
        /\ result.errors # <<>> <=> ~result.is_valid

\* three speakers, one with a NaN azimuth: the call panicked
C15_PanicReached ==
    /\ SetupReturned
    /\ Len(call.array.speakers) = 3
    /\ ret = "panic"

\* a report that is returned is as C15 states; one with warnings is valid
C15_ReportWhereReturned ==
    (SetupReturned /\ ret = "returned") =>
        /\ result.is_valid <=> Len(call.array.speakers) >= 3
        /\ result.errors # <<>> <=> ~result.is_valid
        /\ result.warnings # <<>> => result.is_valid

\* the angle between the directions a and b, two whole numbers of degrees
AngularDistance(a, b) ==
    LET d == Abs(a - b) % 360
    IN  IF d <= 180 THEN d ELSE 360 - d

CloseTogether(x, y) == ~x.nan /\ ~y.nan /\ AngularDistance(x.num, y.num) < 10

WarningsOf(i, j) ==
    {w \in 1..Len(result.warnings) : result.warnings[w].i = i - 1 /\ result.warnings[w].j = j - 1}

\* C16: for an array of at least 3 speakers validate_speaker_setup emits
\* exactly one warning for each unordered pair of speakers whose azimuths are
\* less than 10 degrees apart as directions (355 and 0 degrees are 5 degrees
\* apart), and no warning for any other pair.
C16_OneWarningPerClosePair ==
    (SetupReturned /\ Len(call.array.speakers) >= 3) =>
        /\ ret = "returned"
        /\ \A i \in 1..Len(call.array.speakers), j \in 1..Len(call.array.speakers) :
            i < j =>
                Cardinality(WarningsOf(i, j)) =
                    IF CloseTogether(call.array.speakers[i].position.azimuth,
                                     call.array.speakers[j].position.azimuth)
                    THEN 1 ELSE 0
        /\ \A w \in 1..Len(result.warnings) :
            result.warnings[w].i < result.warnings[w].j

\* speakers at 355, 0 and 120 degrees were validated without a warning
C16_WrapPairReached ==
    /\ SetupReturned
    /\ ret = "returned"
    /\ azimuths(call.array.speakers) = <<F(355), F(0), F(120)>>
    /\ result.warnings = <<>>

\* the code warns exactly for the pairs whose azimuth values differ by less
\* than 10
C16_OneWarningPerCloseValues ==
    (SetupReturned /\ ret = "returned" /\ Len(call.array.speakers) >= 3) =>
        /\ \A i \in 1..Len(call.array.speakers), j \in 1..Len(call.array.speakers) :
            i < j =>
                Cardinality(WarningsOf(i, j)) =
                    IF Abs(call.array.speakers[i].position.azimuth.num
                           - call.array.speakers[j].position.azimuth.num) < 10
                    THEN 1 ELSE 0
        /\ \A w \in 1..Len(result.warnings) :
            result.warnings[w].i < result.warnings[w].j

AzimuthValues(speaker_list) == {speaker_list[i].position.azimuth.num : i \in 1..Len(speaker_list)}

\* the azimuths are numbers, not all equal, and span less than 360 degrees
SpansLessThanCircle(speaker_list) ==
    /\ Numbers(azimuths(speaker_list))
    /\ \E a \in AzimuthValues(speaker_list), b \in AzimuthValues(speaker_list) : a # b
    /\ \A a \in AzimuthValues(speaker_list), b \in AzimuthValues(speaker_list) : a - b < 360

\* C17: for n >= 2 speakers whose azimuths are not all equal and span less
\* than 360 degrees calculate_optimal_spread is 360/n whatever the order of
\* the speakers (45 for the ring of 8); for fewer than 2 speakers it is 0.
C17_SpreadIsCircleOverCount ==
    SpreadReturned =>
        LET n == Len(call.array.speakers)
        IN  /\ n < 2 => ret = "returned" /\ result = F(0)
            /\ (n >= 2 /\ SpansLessThanCircle(call.array.speakers)) =>
                /\ ret = "returned"
                /\ ~result.nan
                /\ result.num * n = 360 * result.den

\* the ring of 8, out of order, has the spread 45
C17_Witness ==
    /\ SpreadReturned
    /\ call.array = ShuffledRing
    /\ ret = "returned"
    /\ result.num = 45 * result.den

----------------------------------------------------------------------------
(* The WFS converter (crates/max2sc-codegen/src/converters/wfs.rs) *)

\* impl From<bool> for SCValue
SCValue_from_bool(v) == SCInt(IF v THEN 1 ELSE 0)

\* calculate_wfs_gains
calculate_wfs_gains(speaker_list) ==
    [i \in 1..Len(speaker_list) |-> SCFloat(speaker_list[i].gain)]

\* calculate_wfs_delays reading the gains
calculate_wfs_delays_from_gains(speaker_list) ==
    [i \in 1..Len(speaker_list) |-> SCFloat(speaker_list[i].gain)]

\* calculate_wfs_delays
calculate_wfs_delays(speaker_list) ==
    [i \in 1..Len(speaker_list) |-> SCFloat(speaker_list[i].delay)]

s_input == SCSymbol("input")
s_source_azimuth == SCSymbol("source_azimuth")
s_source_distance == SCSymbol("source_distance")

\* num_speakers is array.speakers.len() as i32: a length below 2^31 is kept
\* by the cast, and the lengths of the model are below 2^31.  The comment
\* property is kept as the pieces that format! joins.
generate_linear_wfs_array(array, length, spacing) ==
    LET num_speakers == Len(array.speakers)
        wfs_config == unwrap_or(array.wfs_config, WfsConfigDefault)
        delays == calculate_wfs_delays(array.speakers)
        gains == calculate_wfs_gains(array.speakers)
    IN  Ok(SCObject_ar("WFSArrayLinear",
            <<s_input, s_source_azimuth, s_source_distance, SCInt(num_speakers),
              SCFloat(length), SCFloat(spacing), SCArray(delays), SCArray(gains)>>,
            <<<<"prefilter_cutoff", SCFloat(wfs_config.prefilter_cutoff)>>,
              <<"distance_compensation", SCValue_from_bool(wfs_config.distance_compensation)>>,
              <<"amplitude_correction", SCValue_from_bool(wfs_config.amplitude_correction)>>,
              <<"aliasing_frequency", SCFloat(wfs_config.aliasing_frequency)>>,
              <<"comment", SCString(<<"WFS linear array", num_speakers, length>>)>>>>))

generate_circular_wfs_array(array, radius) ==
    LET num_speakers == Len(array.speakers)
        wfs_config == unwrap_or(array.wfs_config, WfsConfigDefault)
        delays == calculate_wfs_delays(array.speakers)
        gains == calculate_wfs_gains(array.speakers)
    IN  Ok(SCObject_ar("WFSArrayCircular",
            <<s_input, s_source_azimuth, s_source_distance, SCInt(num_speakers),
              SCFloat(radius), SCArray(delays), SCArray(gains)>>,
            <<<<"prefilter_cutoff", SCFloat(wfs_config.prefilter_cutoff)>>,
              <<"distance_compensation", SCValue_from_bool(wfs_config.distance_compensation)>>,
              <<"amplitude_correction", SCValue_from_bool(wfs_config.amplitude_correction)>>,
              <<"comment", SCString(<<"WFS circular array", num_speakers, radius>>)>>>>))

generate_irregular_wfs_array(array) ==
    LET num_speakers == Len(array.speakers)
        wfs_config == unwrap_or(array.wfs_config, WfsConfigDefault)
        azimuth_values ==
            [i \in 1..num_speakers |-> SCFloat(array.speakers[i].position.azimuth)]
        distance_values ==
            [i \in 1..num_speakers |-> SCFloat(array.speakers[i].position.distance)]
        elevation_values ==
            [i \in 1..num_speakers |-> SCFloat(array.speakers[i].position.elevation)]
        delays == calculate_wfs_delays(array.speakers)
        gains == calculate_wfs_gains(array.speakers)
    IN  Ok(SCObject_ar("WFSArrayIrregular",
            <<s_input, s_source_azimuth, s_source_distance, SCInt(num_speakers),
              SCArray(azimuth_values), SCArray(elevation_values), SCArray(distance_values),
              SCArray(delays), SCArray(gains)>>,
            <<<<"prefilter_cutoff", SCFloat(wfs_config.prefilter_cutoff)>>,
              <<"distance_compensation", SCValue_from_bool(wfs_config.distance_compensation)>>,
              <<"comment", SCString(<<"WFS irregular array", num_speakers>>)>>>>))

generate_wfs_array(array) ==
    CASE array.array_type.kind = "Wfs" ->
            generate_linear_wfs_array(array, array.array_type.length, array.array_type.spacing)
      [] array.array_type.kind = "Ring" ->
            generate_circular_wfs_array(array, array.array_type.radius)
      [] array.array_type.kind = "Irregular" ->
            generate_irregular_wfs_array(array)

----------------------------------------------------------------------------
(* Inputs and state machine of one call into the WFS converter *)

MaxWfsSpeakers == 3    \* longest speaker list tried

\* delay and gain of a speaker: the defaults, two other pairs, and NaN
DelayGains == {<<F(0), F(1)>>, <<F(3), F(2)>>, <<F(5), F(0)>>, <<NaN, NaN>>}

WfsSpeakers(delay_gain_list) ==
    [i \in 1..Len(delay_gain_list) |->
        OscSpeaker(i - 1, F((i - 1) * 45), F(0), F(10),
                   delay_gain_list[i][1], delay_gain_list[i][2])]

WfsArrayTypes ==
    {[kind |-> "Wfs", length |-> F(8), spacing |-> F(2)],
     [kind |-> "Ring", radius |-> F(10)],
     [kind |-> "Irregular"]}

WfsConfigs ==
    {NoWfsConfig, SomeWfsConfig(WfsConfigDefault),
     SomeWfsConfig([prefilter_cutoff |-> F(1000), distance_compensation |-> TRUE,
                    amplitude_correction |-> TRUE, aliasing_frequency |-> F(8000)])}

WfsArrays ==
    {SpeakerArray("wfs", array_type, WfsSpeakers(delay_gain_list), wfs_config) :
        array_type \in WfsArrayTypes,
        delay_gain_list \in SeqsUpTo(DelayGains, MaxWfsSpeakers),
        wfs_config \in WfsConfigs}

WfsInit ==
    /\ \E array \in WfsArrays : call = [fn |-> "generate_wfs_array", array |-> array]
    /\ ConverterLocals

\* wfs.rs 11-19
GenerateWfsArray ==
    /\ pc = "converter_call"
    /\ call.fn = "generate_wfs_array"
    /\ Returns(generate_wfs_array(call.array))

WfsNext == GenerateWfsArray

SpecWfs == WfsInit /\ [][WfsNext]_vars

----------------------------------------------------------------------------
(* Claims on the WFS converter *)

WfsReturned == pc = "converter_returned" /\ call.fn = "generate_wfs_array"

\* C20: for every speaker array of each of the three topologies (Wfs, Ring,
\* Irregular) generate_wfs_array succeeds and emits a delay array and a gain
\* array (its last two arguments), each with exactly one entry per speaker,
\* the i-th entries being the i-th speaker's delay and gain unchanged, and
\* a speaker-count argument (the fourth) equal to the number of speakers.
C20_DelaysAndGainsPerSpeaker ==
    WfsReturned =>
        /\ ret = "returned"
        /\ result.ok
        /\ LET args == result.val.args
               speaker_list == call.array.speakers
               delays == args[Len(args) - 1]
               gains == args[Len(args)]
           IN  /\ args[4] = SCInt(Len(speaker_list))
               /\ delays.tag = "Array" /\ Len(delays.v) = Len(speaker_list)
               /\ gains.tag = "Array" /\ Len(gains.v) = Len(speaker_list)
               /\ \A i \in 1..Len(speaker_list) :
                    /\ delays.v[i] = SCFloat(speaker_list[i].delay)
                    /\ gains.v[i] = SCFloat(speaker_list[i].gain)

\* an Irregular array of three speakers with three different delays was
\* converted
C20_Witness ==
    /\ WfsReturned
    /\ result.ok
    /\ call.array.array_type.kind = "Irregular"
    /\ Len(call.array.speakers) = 3
    /\ call.array.speakers[1].delay = F(5)
    /\ call.array.speakers[2].delay = F(0)
    /\ call.array.speakers[3].delay = F(3)
    /\ result.val.class_name = "WFSArrayIrregular"

----------------------------------------------------------------------------
(* Claims of the graph, continued *)

UniqueNodeIds(g) ==
    \A i \in 1..Len(g.nodes), j \in 1..Len(g.nodes) : i # j => g.nodes[i].id # g.nodes[j].id

UniqueBoxIds ==
    \A i \in 1..Len(patch.boxes), j \in 1..Len(patch.boxes) :
        i # j => patch.boxes[i].id # patch.boxes[j].id

\* the last box of the patch carrying the id
LastBoxWith(id) ==
    CHOOSE i \in 1..Len(patch.boxes) :
        /\ patch.boxes[i].id = id
        /\ \A j \in 1..Len(patch.boxes) : patch.boxes[j].id = id => j <= i

\* C23: in every graph build_signal_flow_graph returns, whatever the patch
\* (two boxes under one id included), no two nodes have the same id, so a
\* cable naming an id is attached to the one node built from the box with
\* that id.
C23_NodeIdsUnique ==
    ret = "Ok" => UniqueNodeIds(self)

\* a patch with two boxes under one id was built into a graph with two nodes
\* under that id and a cable attached to the later one
C23_DuplicateReached ==
    /\ ret = "Ok"
    /\ ~UniqueBoxIds
    /\ ~UniqueNodeIds(self)
    /\ \E e \in 1..Len(self.edges) :
        \E i \in 1..Len(self.nodes) :
            i < self.edges[e].source /\ self.nodes[i].id = self.nodes[self.edges[e].source].id

\* node ids repeat exactly as box ids do, and a cable is attached to the
\* nodes of the last boxes carrying the ids it names
C23_NodeIdsAsBoxIds ==
    Built =>
        /\ UniqueBoxIds <=> UniqueNodeIds(BuiltGraph)
        /\ \A e \in 1..Len(BuiltGraph.edges) :
            /\ BuiltGraph.edges[e].source = LastBoxWith(BuiltGraph.nodes[BuiltGraph.edges[e].source].id)
            /\ BuiltGraph.edges[e].target = LastBoxWith(BuiltGraph.nodes[BuiltGraph.edges[e].target].id)

----------------------------------------------------------------------------
(* analyze_signal_chains step by step: the two loops of graph.rs 246-256,   *)
(* the loop of find_audio_path (graph.rs 275-294) and the loop inside the   *)
(* iterator of petgraph::algo::all_simple_paths.  `search` holds the        *)
(* positions of the two loops, the stack of neighbour iterators and the     *)
(* nodes on the current path.                                               *)

\* Vec::pop that removes nothing
pop_kept(s) == s

\* Vec::pop / IndexSet::pop: the sequence without its last element
pop(s) == SubSeq(s, 1, Len(s) - 1)

top(s) == s[Len(s)]

\* the second pass over a list of cables that all name boxes
RECURSIVE connect_lines(_, _, _)
connect_lines(g, m, lines) ==
    IF lines = <<>> THEN g
    ELSE connect_lines(connect_line(g, m, Head(lines)).graph, m, Tail(lines))

built_graph(p) ==
    LET fp == first_pass(p.boxes, new_graph, empty_map)
    IN  connect_lines(fp.graph, fp.node_map, p.lines)

MaxSearchLines == 4    \* longest cable list of the searched graphs

\* two generators, two processors that can form a cycle, and a sink
LoopBoxes ==
    <<Box("obj-1", "newobj", Some(t_cycle), 2, 1),
      Box("obj-2", "newobj", Some(t_gain), 2, 1),
      Box("obj-3", "newobj", Some(t_mul), 2, 1),
      Box("obj-4", "newobj", Some(t_dac), 2, 0),
      Box("obj-5", "newobj", Some(t_noise), 0, 1)>>

LoopCables ==
    {Cable("obj-1", u64_0, "obj-2", u64_0), Cable("obj-2", u64_0, "obj-3", u64_0),
     Cable("obj-3", u64_0, "obj-2", u64_0), Cable("obj-2", u64_0, "obj-2", u64_0),
     Cable("obj-3", u64_0, "obj-4", u64_0), Cable("obj-2", u64_0, "obj-4", u64_0),
     Cable("obj-5", u64_0, "obj-2", u64_0)}

\* three boxes in a row, the middle one a processor or a control widget
RowBoxes ==
    {<<Box("obj-1", "newobj", Some(t_cycle), 2, 1),
       Box("obj-2", "newobj", Some(t_gain), 2, 1),
       Box("obj-3", "newobj", Some(t_dac), 2, 0)>>,
     <<Box("obj-1", "newobj", Some(t_cycle), 2, 1),
       Box("obj-2", "flonum", None, 1, 2),
       Box("obj-3", "newobj", Some(t_dac), 2, 0)>>}

RowCables ==
    {Cable("obj-1", u64_0, "obj-2", u64_0), Cable("obj-2", u64_0, "obj-2", u64_0),
     Cable("obj-2", u64_0, "obj-3", u64_0), Cable("obj-1", u64_0, "obj-3", u64_0)}

SearchPatches ==
    {[boxes |-> LoopBoxes, lines |-> lines] : lines \in SeqsUpTo(LoopCables, MaxSearchLines)}
    \cup {[boxes |-> boxes, lines |-> lines] :
            boxes \in RowBoxes, lines \in SeqsUpTo(RowCables, MaxSearchLines)}

SearchInit ==
    /\ \E p \in SearchPatches : patch = p /\ self = built_graph(p)
    /\ graph = new_graph
    /\ node_map = empty_map
    /\ k = 0
    /\ pc = "search_call"
    /\ ret = "Ok"
    /\ sources = <<>>
    /\ sinks = <<>>
    /\ chains = <<>>
    /\ search = NotCalled
    /\ fs = NotCalled
    /\ osc_config = NotCalled
    /\ config = NotCalled
    /\ ConverterIdle

beyond_search ==
    <<patch, self, graph, node_map, k, ret, osc_config, config, call, overflow_checks, result,
      fs>>

\* graph.rs 242-244
SearchStart ==
    /\ pc = "search_call"
    /\ sources' = get_audio_sources(self)
    /\ sinks' = get_audio_sinks(self)
    /\ chains' = <<>>
    /\ search' = [source |-> 1, sink |-> 1, stack |-> <<>>, visited |-> <<>>]
    /\ pc' = "pairs"
    /\ UNCHANGED beyond_search

\* graph.rs 273: all_simple_paths(graph, source, sink, 0, None) is created
BeginPair ==
    /\ pc = "pairs"
    /\ search.source <= Len(sources)
    /\ search.sink <= Len(sinks)
    /\ search' = [search EXCEPT !.stack = <<neighbors(self, sources[search.source])>>,
                                !.visited = <<sources[search.source]>>]
    /\ pc' = "paths"
    /\ UNCHANGED <<sources, sinks, chains>>
    /\ UNCHANGED beyond_search

\* graph.rs 246-247: the inner loop is over, the outer loop takes the next source
NextSource ==
    /\ pc = "pairs"
    /\ search.source <= Len(sources)
    /\ search.sink > Len(sinks)
    /\ search' = [search EXCEPT !.source = @ + 1, !.sink = 1]
    /\ UNCHANGED <<pc, sources, sinks, chains>>
    /\ UNCHANGED beyond_search

\* graph.rs 258: chains is returned
SearchReturn ==
    /\ pc = "pairs"
    /\ search.source > Len(sources)
    /\ pc' = "analyzed"
    /\ UNCHANGED <<search, sources, sinks, chains>>
    /\ UNCHANGED beyond_search

Iterating == pc = "paths" /\ search.stack # <<>>
ChildrenLeft == top(search.stack) # <<>>
Child == Head(top(search.stack))
SearchTo == sinks[search.sink]
\* max_length is node_count - 1
BelowMaxLength == Len(search.visited) < Len(self.nodes) - 1

\* the stack with the iterator on top of it replaced by what is left of it
WithTop(children) == [search.stack EXCEPT ![Len(search.stack)] = children]

\* the iterator yielded `path`: the body of the loop of graph.rs 275-291
\* either returns it (the chain is pushed and the inner loop goes on to the
\* next sink) or asks the iterator for the next path
Yielded(path, children) ==
    IF is_audio_path(self, path)
    THEN /\ chains' = Append(chains, [source |-> sources[search.source],
                                      sink |-> SearchTo, path |-> path])
         /\ search' = [search EXCEPT !.sink = @ + 1, !.stack = <<>>, !.visited = <<>>]
         /\ pc' = "pairs"
    ELSE /\ search' = [search EXCEPT !.stack = WithTop(children)]
         /\ UNCHANGED <<pc, chains>>

\* children.next() is None: the level is popped
PopLevel ==
    /\ Iterating
    /\ ~ChildrenLeft
    /\ search' = [search EXCEPT !.stack = pop(@), !.visited = pop(@)]
    /\ UNCHANGED <<pc, sources, sinks, chains>>
    /\ UNCHANGED beyond_search

\* the child is a node off the path: it is visited and its neighbours pushed
Descend ==
    /\ Iterating
    /\ ChildrenLeft
    /\ ~in_seq(search.visited, Child)
    /\ BelowMaxLength
    /\ Child # SearchTo
    /\ search' = [search EXCEPT
                    !.stack = Append(WithTop(Tail(top(search.stack))),
                                     neighbors(self, Child)),
                    !.visited = Append(@, Child)]
    /\ UNCHANGED <<pc, sources, sinks, chains>>
    /\ UNCHANGED beyond_search

\* the child is on the path already: `continue`, whatever the length of the
\* path and whether or not the child is the target
SkipVisited ==
    /\ Iterating
    /\ ChildrenLeft
    /\ in_seq(search.visited, Child)
    /\ search' = [search EXCEPT !.stack = WithTop(Tail(top(search.stack)))]
    /\ UNCHANGED <<pc, sources, sinks, chains>>
    /\ UNCHANGED beyond_search

\* the child is the target: the path up to it is yielded
ReachTarget ==
    /\ Iterating
    /\ ChildrenLeft
    /\ ~in_seq(search.visited, Child)
    /\ BelowMaxLength
    /\ Child = SearchTo
    /\ Yielded(Append(search.visited, SearchTo), Tail(top(search.stack)))
    /\ UNCHANGED <<sources, sinks>>
    /\ UNCHANGED beyond_search

\* the path has max_length nodes and the child is off it: the remaining
\* children are searched for a target that is off the path, and the level is
\* popped when there is none
LookAhead ==
    /\ Iterating
    /\ ChildrenLeft
    /\ ~in_seq(search.visited, Child)
    /\ ~BelowMaxLength
    /\ IF \/ Child = SearchTo
          \/ in_seq(Tail(top(search.stack)), SearchTo) /\ ~in_seq(search.visited, SearchTo)
       THEN Yielded(Append(search.visited, SearchTo),
                    IF Child = SearchTo THEN Tail(top(search.stack))
                    ELSE after_first(Tail(top(search.stack)), SearchTo))
       ELSE /\ search' = [search EXCEPT !.stack = pop(@), !.visited = pop(@)]
            /\ UNCHANGED <<pc, chains>>
    /\ UNCHANGED <<sources, sinks>>
    /\ UNCHANGED beyond_search

\* the iterator is exhausted: find_audio_path returns None (graph.rs 293)
NoPath ==
    /\ pc = "paths"
    /\ search.stack = <<>>
    /\ search' = [search EXCEPT !.sink = @ + 1, !.visited = <<>>]
    /\ pc' = "pairs"
    /\ UNCHANGED <<sources, sinks, chains>>
    /\ UNCHANGED beyond_search

SearchNext ==
    \/ SearchStart \/ BeginPair \/ NextSource \/ SearchReturn
    \/ PopLevel \/ Descend \/ SkipVisited \/ ReachTarget \/ LookAhead \/ NoPath

\* the code is sequential: a step that can be taken is taken
SpecSearch == SearchInit /\ [][SearchNext]_vars /\ WF_vars(SearchNext)

\* C26: analyze_signal_chains terminates on every finite graph, graphs with
\* cycles, self-loops and parallel edges included: every search for a
\* (source, sink) pair ends, and the call returns.
C26_SearchTerminates == <>(pc = "analyzed")

\* the search of a graph with a cycle between two processors returned, with
\* a chain
C26_Witness ==
    /\ pc = "analyzed"
    /\ \E e1 \in 1..Len(self.edges), e2 \in 1..Len(self.edges) :
        /\ self.edges[e1].source = self.edges[e2].target
        /\ self.edges[e1].target = self.edges[e2].source
        /\ self.edges[e1].source # self.edges[e1].target
    /\ chains # <<>>

\* a graph with a self-loop and parallel edges was searched to the end
C26_ParallelReached ==
    /\ pc = "analyzed"
    /\ SelfLoop(self)
    /\ ParallelEdges(self)
    /\ chains # <<>>

\* the steps compute what analyze_signal_chains computes
C26_StepsComputeChains ==
    pc = "analyzed" =>
        /\ chains = analyze_signal_chains(self)
        /\ sources = get_audio_sources(self)
        /\ sinks = get_audio_sinks(self)

----------------------------------------------------------------------------
(* Claims on the HOA converter, continued *)

\* validate_hoa_config(order, n).is_valid in the build of the call
ValidFor(order, n) ==
    LET report == validate_hoa_config(order, n, overflow_checks)
    IN  report # Panicked /\ report.is_valid

\* C28: the orders the HOA converter proposes are usable: for every speaker
\* count n the recommended_order r that validate_hoa_config(any order, n)
\* reports has validate_hoa_config(r, n).is_valid, and the order o that
\* calculate_optimal_order gives for an array of n speakers has
\* validate_hoa_config(o, n).is_valid.
C28_ProposedOrdersValid ==
    /\ (ValidateReturned /\ ret = "returned") =>
        ValidFor(result.recommended_order, call.num_speakers)
    /\ (OptimalReturned /\ ret = "returned") =>
        ValidFor(result, u32_of(Len(call.array.speakers)))

\* order 1 is refused for 3 speakers, and the report recommends order 1
C28_RefusedOrderRecommended ==
    /\ ValidateReturned
    /\ ret = "returned"
    /\ call.order = u32_of(1)
    /\ call.num_speakers = u32_of(3)
    /\ ~result.is_valid
    /\ result.recommended_order = call.order

\* the optimal order of an array of 3 speakers is 1, which is refused
C28_OptimalOrderRefused ==
    /\ OptimalReturned
    /\ Len(call.array.speakers) = 3
    /\ result = u32_of(1)
    /\ ~ValidFor(result, u32_of(3))

\* the proposed orders are valid exactly from 4 speakers on
C28_ValidFromFourSpeakers ==
    /\ (ValidateReturned /\ ret = "returned") =>
        (ValidFor(result.recommended_order, call.num_speakers)
            <=> ~Below(call.num_speakers, 4))
    /\ (OptimalReturned /\ ret = "returned") =>
        (ValidFor(result, u32_of(Len(call.array.speakers)))
            <=> Len(call.array.speakers) >= 4)

----------------------------------------------------------------------------
(* Claims on the spatial analysis, continued *)

\* C29: in every SpatialConfig analyze_spatial_config returns, an array
\* carries a wfs_config exactly when it is classified Wfs; the method Wfs
\* implies an array of at least 16 speakers; the method Vbap implies no Wfs
\* array, no HOA encoder or decoder object and an array of at least 4
\* speakers; and without a speaker configuration the method is Hoa or Stereo
\* (spat5.vbap~ or panoramix boxes alone never select Vbap).
C29_ConfigConsistent ==
    (pc = "spatial_returned" /\ ret = "Ok") =>
        /\ \A i \in 1..Len(config.speaker_arrays) :
            config.speaker_arrays[i].wfs_config.some
                <=> config.speaker_arrays[i].array_type.kind = "Wfs"
        /\ config.processing_method = "Wfs" => \E n \in ArraySizes : n >= 16
        /\ config.processing_method = "Vbap" =>
            /\ "Wfs" \notin ArrayKinds
            /\ "HoaEncoder" \notin ObjectTags
            /\ "HoaDecoder" \notin ObjectTags
            /\ \E n \in ArraySizes : n >= 4
        /\ ~osc_config.some => config.processing_method \in {"Hoa", "Stereo"}

\* a spat5.vbap~ box and a panoramix box without a speaker configuration
\* were given the method Stereo
C29_Witness ==
    /\ pc = "spatial_returned"
    /\ ret = "Ok"
    /\ ~osc_config.some
    /\ "Vbap" \in ObjectTags
    /\ "Panoramix" \in ObjectTags
    /\ config.processing_method = "Stereo"

\* a configuration with a Wfs array that carries a wfs_config and a ring that
\* carries none was returned
C29_WfsConfigReached ==
    /\ pc = "spatial_returned"
    /\ ret = "Ok"
    /\ Len(config.speaker_arrays) = 2
    /\ config.speaker_arrays[1].array_type.kind = "Wfs"
    /\ config.speaker_arrays[1].wfs_config.some
    /\ config.speaker_arrays[2].array_type.kind = "Ring"
    /\ ~config.speaker_arrays[2].wfs_config.some
    /\ config.processing_method = "Wfs"

\* the method Vbap was given to a configuration with a spat5.vbap~ box
C29_VbapReached ==
    /\ pc = "spatial_returned"
    /\ ret = "Ok"
    /\ "Vbap" \in ObjectTags
    /\ config.processing_method = "Vbap"

----------------------------------------------------------------------------
(* The OSC text parser (crates/max2sc-max-types/src/osc.rs).  A text is the *)
(* sequence of its lines, each line a tuple of characters.                  *)

RECURSIVE gcd(_, _)
gcd(a, b) == IF b = 0 THEN a ELSE gcd(b, a % b)

\* the f32 num / den, in lowest terms
f32_of(num, den) ==
    LET g == gcd(Abs(num), den)
    IN  [nan |-> FALSE, num |-> num \div g, den |-> den \div g]

RECURSIVE pow10(_)
pow10(n) == IF n = 0 THEN 1 ELSE 10 * pow10(n - 1)

all_digits(s) == s # <<>> /\ \A i \in 1..Len(s) : is_digit(s[i])

unsigned(s) == IF s # <<>> /\ Head(s) \in {"+", "-"} THEN Tail(s) ELSE s
negative(s) == s # <<>> /\ Head(s) = "-"

\* str::parse::<i32>().ok() on tokens of fewer than ten characters (which
\* cannot overflow): an optional sign and one or more digits
parse_i32(value) ==
    IF all_digits(unsigned(value))
    THEN [some |-> TRUE,
          val |-> IF negative(value) THEN -decimal_value(unsigned(value))
                  ELSE decimal_value(unsigned(value))]
    ELSE [some |-> FALSE, val |-> 0]

\* the position of the first c in s, Len(s) + 1 when there is none
RECURSIVE find_char(_, _, _)
find_char(s, c, i) ==
    IF i > Len(s) THEN i ELSE IF s[i] = c THEN i ELSE find_char(s, c, i + 1)

\* str::parse::<f32>().ok() on the tokens of the inputs: "nan", or an
\* optional sign, digits, and an optional point followed by digits, with a
\* digit on at least one side of the point
parse_f32(value) ==
    LET body == unsigned(value)
        point == find_char(body, ".", 1)
        whole == SubSeq(body, 1, point - 1)
        fraction == SubSeq(body, point + 1, Len(body))
        digits == whole \o fraction
        magnitude == decimal_value(digits)
    IN  IF body = <<"n", "a", "n">> THEN [some |-> TRUE, val |-> NaN]
        ELSE IF all_digits(digits)
        THEN [some |-> TRUE,
              val |-> f32_of(IF negative(value) THEN -magnitude ELSE magnitude,
                             pow10(Len(fraction)))]
        ELSE [some |-> FALSE, val |-> NaN]

OSCString(s) == [tag |-> "String", v |-> s]
OSCInt(i) == [tag |-> "Int", v |-> i]
OSCFloat(f) == [tag |-> "Float", v |-> f]

\* parse_osc_value that reads a number as a float, whatever its spelling
parse_osc_value_float_first(value) ==
    IF Len(value) >= 2 /\ Head(value) = "\"" /\ value[Len(value)] = "\""
    THEN OSCString(SubSeq(value, 2, Len(value) - 1))
    ELSE IF parse_f32(value).some THEN OSCFloat(parse_f32(value).val)
    ELSE OSCString(value)

parse_osc_value(value) ==
    IF Len(value) >= 2 /\ Head(value) = "\"" /\ value[Len(value)] = "\""
    THEN OSCString(SubSeq(value, 2, Len(value) - 1))
    ELSE IF parse_i32(value).some THEN OSCInt(parse_i32(value).val)
    ELSE IF parse_f32(value).some THEN OSCFloat(parse_f32(value).val)
    ELSE OSCString(value)

\* the loop of parse_osc_line over the characters left, with the part being
\* collected and the quote flag
RECURSIVE osc_line_parts(_, _, _)
osc_line_parts(chars, current, in_quotes) ==
    IF chars = <<>> THEN (IF current # <<>> THEN <<current>> ELSE <<>>)
    ELSE LET ch == Head(chars)
         IN  IF ch = "\""
             THEN osc_line_parts(Tail(chars), Append(current, ch), ~in_quotes)
             ELSE IF ch \in {" ", "\t"} /\ ~in_quotes
             THEN (IF current # <<>> THEN <<current>> ELSE <<>>)
                  \o osc_line_parts(Tail(chars), <<>>, in_quotes)
             ELSE osc_line_parts(Tail(chars), Append(current, ch), in_quotes)

parse_osc_line(line) == osc_line_parts(line, <<>>, FALSE)

\* str::split(c), collected
RECURSIVE split(_, _)
split(s, c) ==
    LET at == find_char(s, c, 1)
    IN  IF at > Len(s) THEN <<s>>
        ELSE <<SubSeq(s, 1, at - 1)>> \o split(SubSeq(s, at + 1, Len(s)), c)

\* str::trim
RECURSIVE trim(_)
trim(s) ==
    IF s = <<>> THEN s
    ELSE IF is_whitespace(Head(s)) THEN trim(Tail(s))
    ELSE IF is_whitespace(s[Len(s)]) THEN trim(SubSeq(s, 1, Len(s) - 1))
    ELSE s

w_bus == <<"b", "u", "s">>
w_format == <<"f", "o", "r", "m", "a", "t">>
w_name == <<"n", "a", "m", "e">>
w_speakers == <<"s", "p", "e", "a", "k", "e", "r", "s">>
w_aed == <<"a", "e", "d">>
w_speaker == <<"s", "p", "e", "a", "k", "e", "r">>
w_delay == <<"d", "e", "l", "a", "y">>
w_gain == <<"g", "a", "i", "n">>

BusInfoDefault ==
    [format |-> None, name |-> None, speakers_aed |-> <<>>,
     speaker_delays |-> empty_map, speaker_gains |-> empty_map]

\* for arg in args { if let OSCValue::Float(f) = arg { push } }
RECURSIVE floats_of(_)
floats_of(args) ==
    IF args = <<>> THEN <<>>
    ELSE (IF Head(args).tag = "Float" THEN <<Head(args).v>> ELSE <<>>)
         \o floats_of(Tail(args))

first_is(args, tag) == args # <<>> /\ args[1].tag = tag

\* the BusInfo after the command, `parts` being the address split at '/'
bus_info_after(bus_info, parts, args) ==
    IF Len(parts) < 4 THEN bus_info
    ELSE IF parts[4] = w_format
    THEN (IF first_is(args, "String") THEN [bus_info EXCEPT !.format = Some(args[1].v)]
          ELSE bus_info)
    ELSE IF parts[4] = w_name
    THEN (IF first_is(args, "String") THEN [bus_info EXCEPT !.name = Some(args[1].v)]
          ELSE bus_info)
    ELSE IF parts[4] = w_speakers /\ Len(parts) >= 5 /\ parts[5] = w_aed
    THEN [bus_info EXCEPT !.speakers_aed = @ \o floats_of(args)]
    ELSE IF parts[4] = w_speaker /\ Len(parts) >= 6 /\ parse_u32(parts[5]).some
    THEN LET speaker_id == parse_u32(parts[5]).val
         IN  IF parts[6] = w_delay /\ first_is(args, "Float")
             THEN [bus_info EXCEPT
                     !.speaker_delays = map_insert(@, speaker_id, args[1].v)]
             ELSE IF parts[6] = w_gain /\ first_is(args, "Float")
             THEN [bus_info EXCEPT
                     !.speaker_gains = map_insert(@, speaker_id, args[1].v)]
             ELSE bus_info
    ELSE bus_info

\* handle_bus_command: the buses after the command
handle_bus_command(address, args, buses) ==
    LET parts == split(address, "/")
    IN  IF Len(parts) < 3 \/ ~parse_u32(parts[3]).some THEN buses
        ELSE LET bus_id == parse_u32(parts[3]).val
                 bus_info == IF bus_id \in DOMAIN buses THEN buses[bus_id]
                             ELSE BusInfoDefault
             IN  map_insert(buses, bus_id, bus_info_after(bus_info, parts, args))

map_get_or(m, key, default) == IF key \in DOMAIN m THEN m[key] ELSE default

\* BusInfo::to_speaker_array
to_speaker_array(bus_info, bus_id) ==
    IF Len(bus_info.speakers_aed) % 3 # 0 THEN None
    ELSE Some(OscSpeakerArray(bus_id,
                unwrap_or_empty(bus_info.format), unwrap_or_empty(bus_info.name),
                [i \in 1..(Len(bus_info.speakers_aed) \div 3) |->
                    OscSpeaker(i,
                        bus_info.speakers_aed[(i - 1) * 3 + 1],
                        bus_info.speakers_aed[(i - 1) * 3 + 2],
                        bus_info.speakers_aed[(i - 1) * 3 + 3],
                        map_get_or(bus_info.speaker_delays, i, F(0)),
                        map_get_or(bus_info.speaker_gains, i, F(0)))]))

\* the first loop of parse_osc_text: [commands, buses] after the lines
RECURSIVE osc_lines(_, _, _)
osc_lines(lines, commands, buses) ==
    IF lines = <<>> THEN [commands |-> commands, buses |-> buses]
    ELSE LET line == trim(Head(lines))
             parts == parse_osc_line(line)
         IN  IF line = <<>> \/ Head(line) = "#" \/ parts = <<>>
             THEN osc_lines(Tail(lines), commands, buses)
             ELSE LET address == parts[1]
                      args == [i \in 1..(Len(parts) - 1) |-> parse_osc_value(parts[i + 1])]
                  IN  osc_lines(Tail(lines),
                          Append(commands, [address |-> address, args |-> args]),
                          IF starts_with(address, <<"/">> \o w_bus \o <<"/">>)
                          THEN handle_bus_command(address, args, buses)
                          ELSE buses)

\* the second loop: the arrays of the buses in the order the HashMap yields them
RECURSIVE arrays_of(_, _)
arrays_of(buses, bus_order) ==
    IF bus_order = <<>> THEN <<>>
    ELSE LET array == to_speaker_array(buses[Head(bus_order)], Head(bus_order))
         IN  (IF array.some THEN <<array.val>> ELSE <<>>)
             \o arrays_of(buses, Tail(bus_order))

\* the orders in which `for (bus_id, bus_info) in current_buses` can yield
\* the buses: std's HashMap is seeded anew for every map, and any order of
\* the keys can come out
IterationOrders(buses) ==
    {order \in [1..Cardinality(DOMAIN buses) -> DOMAIN buses] :
        \A i, j \in 1..Cardinality(DOMAIN buses) : i # j => order[i] # order[j]}

\* the buses parse_osc_text has collected when its first loop is over
buses_of(content) == osc_lines(content, <<>>, empty_map).buses

\* parse_osc_text, Ok(OSCConfig { commands, speaker_arrays }), for one
\* iteration order of the HashMap
parse_osc_text(content, bus_order) ==
    LET collected == osc_lines(content, <<>>, empty_map)
    IN  [commands |-> collected.commands,
         speaker_arrays |-> arrays_of(collected.buses, bus_order)]

----------------------------------------------------------------------------
(* Inputs and state machine of the OSC parser: a text is parsed, and then   *)
(* parsed once more.  `result` is the sequence of the configurations        *)
(* returned so far.  A line of the input is kept with what it is meant to   *)
(* say next to its text.                                                    *)

MaxOscLines == 3    \* longest text, in lines

\* a number as written and the value it is meant to have
Written(text, value) == [text |-> text, value |-> value]

d_30 == Written(<<"3", "0", ".", "0">>, F(30))
d_0 == Written(<<"0", ".", "0">>, F(0))
d_1_5 == Written(<<"1", ".", "5">>, [nan |-> FALSE, num |-> 3, den |-> 2])
d_m30_5 == Written(<<"-", "3", "0", ".", "5">>, [nan |-> FALSE, num |-> -61, den |-> 2])
d_0_5 == Written(<<"0", ".", "5">>, [nan |-> FALSE, num |-> 1, den |-> 2])
i_30 == Written(<<"3", "0">>, F(30))
i_0 == Written(<<"0">>, F(0))
i_2 == Written(<<"2">>, F(2))

decimal_digit(n) == <<Digits[n + 1]>>

RECURSIVE spaced(_)
spaced(numbers) ==
    IF numbers = <<>> THEN <<>> ELSE <<" ">> \o Head(numbers).text \o spaced(Tail(numbers))

\* "/bus/<bus>/speakers/aed n1 n2 ..."
AedLine(bus, numbers) ==
    [kind |-> "aed", bus |-> bus, numbers |-> numbers,
     text |-> <<"/">> \o w_bus \o <<"/">> \o decimal_digit(bus) \o <<"/">> \o w_speakers
              \o <<"/">> \o w_aed \o spaced(numbers)]

\* "/bus/<bus>/speaker/<speaker>/delay n" or ".../gain n"
SettingLine(bus, speaker, setting, number) ==
    [kind |-> setting, bus |-> bus, speaker |-> speaker, number |-> number,
     text |-> <<"/">> \o w_bus \o <<"/">> \o decimal_digit(bus) \o <<"/">> \o w_speaker
              \o <<"/">> \o decimal_digit(speaker) \o <<"/">>
              \o (IF setting = "delay" THEN w_delay ELSE w_gain) \o spaced(<<number>>)]

OtherLine(text) == [kind |-> "other", text |-> text]

OscLines ==
    {AedLine(1, <<d_30, d_0, d_1_5>>),
     AedLine(1, <<i_30, i_0, i_2>>),
     AedLine(1, <<d_m30_5, i_0, d_1_5, d_30, d_0, d_1_5>>),
     AedLine(2, <<d_0, d_0, d_1_5>>),
     AedLine(2, <<d_30, d_0>>),
     SettingLine(1, 1, "delay", d_0_5),
     SettingLine(1, 1, "delay", d_1_5),
     SettingLine(1, 2, "gain", d_m30_5),
     SettingLine(1, 1, "gain", i_2),
     OtherLine(<<" ", "#", " ", "/", "b", "u", "s", "/", "3", "/", "x", " ">>),
     OtherLine(<<"/">> \o w_bus \o <<"/", "1", "/">> \o w_format
               \o <<" ", "\"", "W", "F", "S", "\"">>)}

TextOf(lines) == [i \in 1..Len(lines) |-> lines[i].text]

OscInit ==
    /\ \E lines \in SeqsUpTo(OscLines, MaxOscLines) :
        call = [fn |-> "parse_osc_text", content |-> TextOf(lines), lines |-> lines]
    /\ result = <<>>
    /\ ret = "none"
    /\ pc = "converter_call"
    /\ overflow_checks = FALSE
    /\ GraphIdle
    /\ SpatialIdle

\* osc.rs 53-97: a call of parse_osc_text on the text, the first or the second
ParseOscText ==
    /\ pc \in {"converter_call", "converter_returned"}
    /\ call.fn = "parse_osc_text"
    /\ \E bus_order \in IterationOrders(buses_of(call.content)) :
        result' = Append(result, parse_osc_text(call.content, bus_order))
    /\ ret' = "returned"
    /\ pc' = IF pc = "converter_call" THEN "converter_returned" ELSE "called_again"
    /\ UNCHANGED <<call, overflow_checks, patch, osc_config, config, self, graph,
                   node_map, k, sources, sinks, chains, search, fs>>

OscNext == ParseOscText

SpecOsc == OscInit /\ [][OscNext]_vars

----------------------------------------------------------------------------
(* Claims on the OSC parser *)

OscReturned == pc \in {"converter_returned", "called_again"} /\ call.fn = "parse_osc_text"

AedLinesOf(bus) ==
    {i \in 1..Len(call.lines) : call.lines[i].kind = "aed" /\ call.lines[i].bus = bus}

SettingsOf(bus, speaker, setting) ==
    {i \in 1..Len(call.lines) :
        /\ call.lines[i].kind = setting
        /\ call.lines[i].bus = bus
        /\ call.lines[i].speaker = speaker}

\* the value of the last delay or gain command for the speaker, 0.0 without one
LastSetting(bus, speaker, setting) ==
    IF SettingsOf(bus, speaker, setting) = {} THEN F(0)
    ELSE LET last == CHOOSE i \in SettingsOf(bus, speaker, setting) :
                        \A j \in SettingsOf(bus, speaker, setting) : j <= i
         IN  call.lines[last].number.value

\* the bus has one aed line, and that line carries 3k numbers
OneAedLineOfTriplets(bus) ==
    /\ Cardinality(AedLinesOf(bus)) = 1
    /\ \A i \in AedLinesOf(bus) : Len(call.lines[i].numbers) % 3 = 0

ArraysOfBus(parsed, bus) ==
    {a \in 1..Len(parsed.speaker_arrays) : parsed.speaker_arrays[a].bus_id = bus}

\* the array is what the aed line and the delay and gain commands of the bus say
ArrayAsWritten(array, bus) ==
    LET numbers == call.lines[CHOOSE i \in AedLinesOf(bus) : TRUE].numbers
    IN  /\ Len(array.speakers) = Len(numbers) \div 3
        /\ \A i \in 1..Len(array.speakers) :
            /\ array.speakers[i].id = i
            /\ array.speakers[i].position.azimuth = numbers[3 * i - 2].value
            /\ array.speakers[i].position.elevation = numbers[3 * i - 1].value
            /\ array.speakers[i].position.distance = numbers[3 * i].value
            /\ array.speakers[i].delay = LastSetting(bus, i, "delay")
            /\ array.speakers[i].gain = LastSetting(bus, i, "gain")

Buses == {1, 2}

\* C24: for a '/bus/<id>/speakers/aed' line carrying 3k numbers parse_osc_text
\* produces for that bus one array of exactly k speakers numbered 1..k, the
\* i-th azimuth, elevation and distance being the i-th triplet in order,
\* whether a number is written with a decimal point (0.0) or as an integer
\* (0); delay and gain of a speaker come from the delay and gain commands,
\* the last value winning, and are 0.0 without a command.
C24_SpeakersFromTriplets ==
    OscReturned =>
        \A bus \in Buses :
            OneAedLineOfTriplets(bus) =>
                /\ Cardinality(ArraysOfBus(result[1], bus)) = 1
                /\ \A a \in ArraysOfBus(result[1], bus) :
                    ArrayAsWritten(result[1].speaker_arrays[a], bus)

\* "/bus/1/speakers/aed 30 0 2" gave an array without speakers
C24_IntegersDropped ==
    /\ OscReturned
    /\ call.lines = <<AedLine(1, <<i_30, i_0, i_2>>)>>
    /\ Len(result[1].speaker_arrays) = 1
    /\ result[1].speaker_arrays[1].speakers = <<>>

\* six numbers, one of them written 0, gave no array at all
C24_BusDropped ==
    /\ OscReturned
    /\ call.lines = <<AedLine(1, <<d_m30_5, i_0, d_1_5, d_30, d_0, d_1_5>>)>>
    /\ result[1].speaker_arrays = <<>>

HasPoint(number) == \E i \in 1..Len(number.text) : number.text[i] = "."

\* every number of the bus, in its aed line and its delay and gain commands,
\* is written with a decimal point
AllWithPoint(bus) ==
    \A i \in 1..Len(call.lines) :
        /\ (call.lines[i].kind = "aed" /\ call.lines[i].bus = bus) =>
            \A n \in 1..Len(call.lines[i].numbers) : HasPoint(call.lines[i].numbers[n])
        /\ (call.lines[i].kind \in {"delay", "gain"} /\ call.lines[i].bus = bus) =>
            HasPoint(call.lines[i].number)

\* C24 holds for the buses whose numbers are all written with a decimal point
C24_SpeakersFromDecimalTriplets ==
    OscReturned =>
        \A bus \in Buses :
            (OneAedLineOfTriplets(bus) /\ AllWithPoint(bus)) =>
                /\ Cardinality(ArraysOfBus(result[1], bus)) = 1
                /\ \A a \in ArraysOfBus(result[1], bus) :
                    ArrayAsWritten(result[1].speaker_arrays[a], bus)

\* one speaker written with decimal points and its delay set twice: read as
\* written, the second delay kept and the gain 0.0
C24_DecimalsReached ==
    /\ OscReturned
    /\ call.lines = <<SettingLine(1, 1, "delay", d_0_5),
                      AedLine(1, <<d_30, d_0, d_1_5>>),
                      SettingLine(1, 1, "delay", d_1_5)>>
    /\ result[1].speaker_arrays =
        <<OscSpeakerArray(1, <<>>, <<>>,
            <<OscSpeaker(1, F(30), F(0), [nan |-> FALSE, num |-> 3, den |-> 2],
                         [nan |-> FALSE, num |-> 3, den |-> 2], F(0))>>)>>

\* C30: parse_osc_text is deterministic in the order of its result: parsing
\* the same text twice yields the same sequence of speaker arrays (the same
\* bus at the same position), also for texts that configure two or more
\* buses.
C30_SameArraysInSameOrder ==
    pc = "called_again" => result[1].speaker_arrays = result[2].speaker_arrays

\* a text with two buses was parsed into bus 1, bus 2 and then into bus 2,
\* bus 1
C30_OrderDiffers ==
    /\ pc = "called_again"
    /\ Len(result[1].speaker_arrays) = 2
    /\ result[1].speaker_arrays[1].bus_id = 1
    /\ result[2].speaker_arrays[1].bus_id = 2

ArraySet(parsed) == {parsed.speaker_arrays[a] : a \in 1..Len(parsed.speaker_arrays)}

\* two parses agree on the commands and on the arrays as a set, and on the
\* sequence when at most one bus yields an array
C30_SameArraysInSomeOrder ==
    pc = "called_again" =>
        /\ result[1].commands = result[2].commands
        /\ ArraySet(result[1]) = ArraySet(result[2])
        /\ Len(result[1].speaker_arrays) = Len(result[2].speaker_arrays)
        /\ Len(result[1].speaker_arrays) <= 1 =>
            result[1].speaker_arrays = result[2].speaker_arrays

----------------------------------------------------------------------------
(* Files and directories.  A path is the sequence of its components; `fs`   *)
(* holds the directories, the files with their contents, the directories    *)
(* without write permission (no entry can be created in them or removed     *)
(* from them; they can be read and searched), and the log of the changes    *)
(* made.                                                                    *)

join(path, name) == Append(path, name)

\* Path::parent of a path of one or more components
parent(path) == SubSeq(path, 1, Len(path) - 1)

is_dir(f, path) == path \in f.dirs
is_file(f, path) == path \in DOMAIN f.files
exists(f, path) == is_dir(f, path) \/ is_file(f, path)

\* the entries of a directory
entries(f, path) ==
    {q \in f.dirs \cup DOMAIN f.files : Len(q) = Len(path) + 1 /\ parent(q) = path}

\* the number of entries fs::read_dir yields
entry_count(f, path) == Cardinality(entries(f, path))

Changed(f, op, path) == [f EXCEPT !.log = Append(@, [op |-> op, path |-> path])]

\* fs::create_dir_all: Ok on a directory that exists, otherwise the missing
\* ancestors first and then the directory itself
RECURSIVE create_dir_all(_, _)
create_dir_all(f, path) ==
    IF is_dir(f, path) \/ path = <<>> THEN [ok |-> TRUE, fs |-> f]
    ELSE LET above == create_dir_all(f, parent(path))
         IN  IF ~above.ok THEN above
             ELSE IF is_file(above.fs, path) \/ parent(path) \in f.readonly
             THEN [ok |-> FALSE, fs |-> above.fs]
             ELSE [ok |-> TRUE,
                   fs |-> Changed([above.fs EXCEPT !.dirs = @ \cup {path}],
                                  "create_dir", path)]

\* fs::write: creates the file or replaces its content; only the creation
\* of a new entry needs write permission on the directory
write(f, path, content) ==
    IF \/ ~is_dir(f, parent(path))
       \/ is_dir(f, path)
       \/ ~is_file(f, path) /\ parent(path) \in f.readonly
    THEN [ok |-> FALSE, fs |-> f]
    ELSE [ok |-> TRUE,
          fs |-> Changed([f EXCEPT !.files = (path :> content) @@ @], "write", path)]

without(files, gone) == [q \in DOMAIN files \ gone |-> files[q]]

\* fs::remove_file
remove_file(f, path) ==
    IF ~is_file(f, path) \/ parent(path) \in f.readonly
    THEN [ok |-> FALSE, fs |-> f]
    ELSE [ok |-> TRUE,
          fs |-> Changed([f EXCEPT !.files = without(@, {path})], "remove_file", path)]

below(path, q) == Len(path) <= Len(q) /\ SubSeq(q, 1, Len(path)) = path

\* the orders in which fs::read_dir may yield what lies below `path`: the
\* order of the entries of a directory is the file system's choice
ReadOrders(f, path) ==
    LET under == {q \in f.dirs \cup DOMAIN f.files : below(path, q) /\ q # path}
        n == Cardinality(under)
    IN  {order \in [1..n -> under] : \A i, j \in 1..n : order[i] = order[j] => i = j}

\* fs::read_dir(path) under one of these orders
read_dir(f, path, order) == SelectSeq(order, LAMBDA q : q \in entries(f, path))

\* fs::remove_dir_all: the entries of the directory in the order read_dir
\* yields them, files unlinked and directories removed in the same way, then
\* the directory itself; the first removal that fails ends the call with
\* what was removed before it gone.  An entry is removed from its parent,
\* which needs write permission on the parent.
RECURSIVE remove_dir_all_recursive(_, _, _)
RECURSIVE remove_entries(_, _, _)
remove_entries(f, children, order) ==
    IF children = <<>> THEN [ok |-> TRUE, fs |-> f]
    ELSE LET child == Head(children)
             done == IF is_dir(f, child) THEN remove_dir_all_recursive(f, child, order)
                     ELSE remove_file(f, child)
         IN  IF done.ok THEN remove_entries(done.fs, Tail(children), order) ELSE done

remove_dir_all_recursive(f, path, order) ==
    LET emptied == remove_entries(f, read_dir(f, path, order), order)
    IN  IF ~emptied.ok THEN emptied
        ELSE IF parent(path) \in emptied.fs.readonly
        THEN [ok |-> FALSE, fs |-> emptied.fs]
        ELSE [ok |-> TRUE,
              fs |-> Changed([emptied.fs EXCEPT !.dirs = @ \ {path},
                                                !.readonly = @ \ {path}],
                             "remove_dir", path)]

remove_dir_all(f, path, order) ==
    IF ~is_dir(f, path) THEN [ok |-> FALSE, fs |-> f]
    ELSE remove_dir_all_recursive(f, path, order)

----------------------------------------------------------------------------
(* project_gen.rs: ProjectGenerator and the project it writes *)

ProjectGeneratorNew ==
    [skip_spatial |-> FALSE, skip_multichannel |-> FALSE, skip_osc |-> FALSE,
     simplified_mappings |-> FALSE]

skip_spatial_objects(generator) == [generator EXCEPT !.skip_spatial = TRUE]
skip_multichannel_objects(generator) == [generator EXCEPT !.skip_multichannel = TRUE]
skip_osc_generation(generator) == [generator EXCEPT !.skip_osc = TRUE]
use_simplified_mappings(generator) == [generator EXCEPT !.simplified_mappings = TRUE]

\* the flag one box sets in the loop of generate_basic_synthdefs
found_by(content) ==
    LET text == unwrap_or_empty(content.text)
    IN  IF content.maxclass # "newobj" THEN "none"
        ELSE IF starts_with(text, p_dac) THEN "dac"
        ELSE IF starts_with(text, p_cycle) THEN "cycle"
        ELSE IF starts_with(text, p_spat5) THEN "spat5"
        ELSE "none"

test_synth == [name |-> "testSynth", params |-> <<"freq", "amp", "out">>]
spatial_synth ==
    [name |-> "spatialSynth",
     params |-> <<"freq", "azimuth", "elevation", "distance", "out">>]

found(p, flag) == \E i \in 1..Len(p.boxes) : found_by(p.boxes[i]) = flag

generate_basic_synthdefs(p) ==
    (IF found(p, "cycle") \/ found(p, "dac") THEN <<test_synth>> ELSE <<>>)
    \o (IF found(p, "spat5") THEN <<spatial_synth>> ELSE <<>>)

generate_init_code(p) ==
    [kind |-> "init_code", num_boxes |-> Len(p.boxes), num_lines |-> Len(p.lines)]

SCProject(p) ==
    [main_file |-> "main.scd",
     synth_defs |-> generate_basic_synthdefs(p),
     patterns |-> <<>>,
     bus_config |-> [audio_buses |-> <<"Main Output", "WFS Array 1", "WFS Array 2">>,
                     control_buses |-> <<"Master Volume", "Spatial Control">>],
     osc_responders |-> <<>>,
     init_code |-> generate_init_code(p),
     cleanup_code |-> Some("cleanup")]

\* a chain of operations on the files, each run on what the one before
\* left, stopping at the first that fails
RECURSIVE in_turn(_, _)
in_turn(f, ops) ==
    IF ops = <<>> THEN [ok |-> TRUE, fs |-> f]
    ELSE LET op == Head(ops)
             done == IF op.op = "create_dir_all" THEN create_dir_all(f, op.path)
                     ELSE write(f, op.path, op.content)
         IN  IF done.ok THEN in_turn(done.fs, Tail(ops)) ELSE done

CreateDirAll(path) == [op |-> "create_dir_all", path |-> path]
Write(path, content) == [op |-> "write", path |-> path, content |-> content]

create_project_directories(output_dir) ==
    <<CreateDirAll(output_dir), CreateDirAll(join(output_dir, "config")),
      CreateDirAll(join(output_dir, "lib")), CreateDirAll(join(output_dir, "assets"))>>

names_of(synth_defs) == [i \in 1..Len(synth_defs) |-> synth_defs[i].name]

\* project_gen.rs 451-486; cleanup.scd is written if let Some(cleanup)
write_project_files(project, output_dir) ==
    <<Write(join(output_dir, project.main_file), project.init_code)>>
    \o (IF project.cleanup_code.some
        THEN <<Write(join(output_dir, "cleanup.scd"),
                     [kind |-> "cleanup_code", code |-> project.cleanup_code.val])>>
        ELSE <<>>)
    \o
    <<Write(join(join(output_dir, "lib"), "SynthDefs.scd"),
            [kind |-> "synth_defs", names |-> names_of(project.synth_defs)]),
      Write(join(join(output_dir, "config"), "buses.yaml"),
            [kind |-> "bus_config", buses |-> project.bus_config]),
      Write(join(output_dir, "README.md"), [kind |-> "readme"])>>

\* Ok(project) with the files written, or the error of the first failed
\* operation with what was written before it; _options is not read
generate_project_with_options(f, p, output_dir, _options) ==
    LET project == SCProject(p)
        done == in_turn(f, create_project_directories(output_dir)
                           \o write_project_files(project, output_dir))
    IN  [ok |-> done.ok, project |-> project, fs |-> done.fs]

generate_project(generator, f, p, output_dir) ==
    generate_project_with_options(f, p, output_dir, generator)

\* generate_speaker_config: one line per speaker, in the order of the arrays
speaker_lines(arrays) ==
    [i \in 1..Len(arrays) |->
        [name |-> arrays[i].name,
         positions |-> [j \in 1..Len(arrays[i].speakers) |-> arrays[i].speakers[j].position]]]

generate_speaker_config(f, osc, output_dir) ==
    write(f, join(join(output_dir, "config"), "speakers.scd"),
          [kind |-> "speakers", arrays |-> speaker_lines(osc.speaker_arrays)])

----------------------------------------------------------------------------
(* config_gen.rs: the configuration files of a project, written into the    *)
(* config directory of the output directory                                 *)

\* config_gen.rs 32-80: the same text for every patch
generate_bus_config(config_dir) ==
    Write(join(config_dir, "buses.yaml"),
          [kind |-> "bus_configuration",
           audio_buses |-> <<"Main Output", "WFS Array 1", "WFS Array 2", "HOA Bus">>,
           control_buses |-> <<"Master Volume", "Spatial X", "Spatial Y", "Spatial Z">>])

\* config_gen.rs 83-124: every array with its speakers, in the order of the
\* configuration
config_gen_generate_speaker_config(osc, config_dir) ==
    Write(join(config_dir, "speakers.yaml"),
          [kind |-> "speaker_configuration", speaker_arrays |-> osc.speaker_arrays])

\* config_gen.rs 135-141: the numbers after the name of an mc.dac~ or mc.adc~
RECURSIVE largest_channel_count(_, _)
largest_channel_count(parts, max_channels) ==
    IF parts = <<>> THEN max_channels
    ELSE LET ch == parse_u32(Head(parts))
         IN  largest_channel_count(Tail(parts),
                                   IF ch.some /\ ch.val > max_channels THEN ch.val
                                   ELSE max_channels)

\* config_gen.rs 129-146: the loop over the boxes, whatever their maxclass
RECURSIVE server_requirements(_, _)
server_requirements(boxes, seen) ==
    IF boxes = <<>> THEN seen
    ELSE LET text == unwrap_or_empty(Head(boxes).text)
             parts == split_whitespace(text)
             max_channels ==
                 IF starts_with(text, p_mc_dac) \/ starts_with(text, p_mc_adc)
                 THEN largest_channel_count(Tail(parts), seen.max_channels)
                 ELSE seen.max_channels
             uses_spatial ==
                 seen.uses_spatial \/ starts_with(text, p_spat5) \/ starts_with(text, p_pan)
         IN  server_requirements(Tail(boxes),
                                 [max_channels |-> max_channels, uses_spatial |-> uses_spatial])

\* config_gen.rs 127-184
generate_server_options(p, config_dir) ==
    LET seen == server_requirements(p.boxes, [max_channels |-> 2, uses_spatial |-> FALSE])
        at_least_8 == IF seen.max_channels > 8 THEN seen.max_channels ELSE 8
    IN  Write(join(config_dir, "server_options.scd"),
              [kind |-> "server_options",
               num_outputs |-> IF seen.uses_spatial THEN 64 ELSE at_least_8,
               num_inputs |-> at_least_8,
               memory_size |-> IF seen.uses_spatial THEN 262144 ELSE 65536])

\* config_gen.rs 9-29: generate_config_files(patch, osc_config, output_dir);
\* the config directory is not created here
config_gen_generate_config_files(f, p, osc, output_dir) ==
    LET config_dir == join(output_dir, "config")
    IN  in_turn(f, <<generate_bus_config(config_dir)>>
                   \o (IF osc.some
                       THEN <<config_gen_generate_speaker_config(osc, config_dir)>>
                       ELSE <<>>)
                   \o <<generate_server_options(p, config_dir)>>)

----------------------------------------------------------------------------
(* The state machine of one ProjectGenerator: new(), any of the four        *)
(* switches, then generate_project; and config_gen::generate_config_files,  *)
(* called on the files as they are before or after generate_project.        *)

MaxProjectBoxes == 2    \* most boxes of a generated patch

t_mc_pack == <<"m", "c", ".", "p", "a", "c", "k", "~", " ", "4">>
t_udpreceive == <<"u", "d", "p", "r", "e", "c", "e", "i", "v", "e", " ", "8">>

t_mc_dac_16 == <<"m", "c", ".", "d", "a", "c", "~", " ", "1", "6">>

\* the OSC configurations handed to generate_config_files: none, and one
\* array of one speaker
ProjectOscConfigs ==
    {NoOsc,
     SomeOsc(<<OscSpeakerArray(1, "aed", "main",
                               <<OscSpeaker(1, F(30), F(0), F(2), F(0), F(1))>>)>>)}

\* a SPAT5 object, an oscillator, an output, a multichannel object, an OSC
\* receiver, a comment that names a SPAT5 object, a box without text, and a
\* multichannel output of 16 channels
ProjectBoxes ==
    { Box("obj-1", "newobj", Some(t_panoramix), 2, 8),
      Box("obj-2", "newobj", Some(t_cycle), 2, 1),
      Box("obj-3", "newobj", Some(t_dac), 2, 0),
      Box("obj-4", "newobj", Some(t_mc_pack), 4, 1),
      Box("obj-5", "newobj", Some(t_udpreceive), 1, 1),
      Box("obj-6", "comment", Some(t_panoramix), 1, 0),
      Box("obj-7", "flonum", None, 1, 2),
      Box("obj-8", "newobj", Some(t_mc_dac_16), 16, 0) }

work == <<"work">>
out == <<"work", "out">>

EmptyFs == [dirs |-> {<<>>}, files |-> <<>>, readonly |-> {}, log |-> <<>>]

\* the directory above the output exists; the output directory may
WorkDir == [EmptyFs EXCEPT !.dirs = {<<>>, work}]
OutDir == [EmptyFs EXCEPT !.dirs = {<<>>, work, out}]

ProjectInit ==
    /\ \E boxes \in SeqsUpTo(ProjectBoxes, MaxProjectBoxes) :
        patch = [boxes |-> boxes, lines |-> <<>>]
    /\ call = [fn |-> "generate_project", generator |-> ProjectGeneratorNew,
               output_dir |-> out]
    /\ fs \in {WorkDir, OutDir}
    /\ result = NotCalled
    /\ ret = "none"
    /\ pc = "converter_call"
    /\ overflow_checks = FALSE
    /\ osc_config = NotCalled
    /\ config = NotCalled
    /\ search = NotCalled
    /\ self = new_graph
    /\ graph = new_graph
    /\ node_map = empty_map
    /\ k = 0
    /\ sources = <<>>
    /\ sinks = <<>>
    /\ chains = <<>>

beyond_project ==
    <<patch, osc_config, config, overflow_checks, self, graph, node_map, k, sources, sinks,
      chains, search>>

\* a call of a switch on the generator: the generator changes, nothing else
Switched(generator) ==
    /\ call.generator # generator
    /\ call' = [call EXCEPT !.generator = generator]
    /\ UNCHANGED <<pc, ret, result, fs>>
    /\ UNCHANGED beyond_project

\* project_gen.rs 29-31
SkipSpatialObjects ==
    /\ pc = "converter_call"
    /\ call.fn = "generate_project"
    /\ Switched(skip_spatial_objects(call.generator))

\* project_gen.rs 34-36
SkipMultichannelObjects ==
    /\ pc = "converter_call"
    /\ call.fn = "generate_project"
    /\ Switched(skip_multichannel_objects(call.generator))

\* project_gen.rs 39-41
SkipOscGeneration ==
    /\ pc = "converter_call"
    /\ call.fn = "generate_project"
    /\ Switched(skip_osc_generation(call.generator))

\* project_gen.rs 44-46
UseSimplifiedMappings ==
    /\ pc = "converter_call"
    /\ call.fn = "generate_project"
    /\ Switched(use_simplified_mappings(call.generator))

\* project_gen.rs 49-55
GenerateProject ==
    /\ pc = "converter_call"
    /\ call.fn = "generate_project"
    /\ LET r == generate_project(call.generator, fs, patch, call.output_dir)
       IN  /\ fs' = r.fs
           /\ result' = IF r.ok THEN r.project ELSE result
           /\ ret' = IF r.ok THEN "Ok" ELSE "Err"
    /\ pc' = "converter_returned"
    /\ UNCHANGED call
    /\ UNCHANGED beyond_project

\* config_gen.rs 9-29, a public function of the crate: called on `patch`
\* and the output directory before generate_project or after it returned
GenerateConfigFilesOfProject ==
    /\ pc \in {"converter_call", "converter_returned"}
    /\ call.fn = "generate_project"
    /\ \E osc \in ProjectOscConfigs :
        LET r == config_gen_generate_config_files(fs, patch, osc, call.output_dir)
        IN  /\ fs' = r.fs
            /\ ret' = IF r.ok THEN "Ok" ELSE "Err"
            /\ call' = [fn |-> "generate_config_files", osc_config |-> osc,
                        output_dir |-> call.output_dir]
    /\ pc' = "config_returned"
    /\ UNCHANGED result
    /\ UNCHANGED beyond_project

ProjectNext ==
    \/ GenerateConfigFilesOfProject
    \/ SkipSpatialObjects
    \/ SkipMultichannelObjects
    \/ SkipOscGeneration
    \/ UseSimplifiedMappings
    \/ GenerateProject

SpecProject == ProjectInit /\ [][ProjectNext]_vars

----------------------------------------------------------------------------
(* Claims on project generation *)

Generated == pc = "converter_returned" /\ call.fn = "generate_project" /\ ret = "Ok"

HasSpat5Box == \E i \in 1..Len(patch.boxes) : found_by(patch.boxes[i]) = "spat5"

SynthDefsFile == fs.files[join(join(call.output_dir, "lib"), "SynthDefs.scd")]

HasSynth(name) ==
    /\ \E i \in 1..Len(result.synth_defs) : result.synth_defs[i].name = name
    /\ \E i \in 1..Len(SynthDefsFile.names) : SynthDefsFile.names[i] = name

\* C21: a generator on which skip_spatial_objects() was called produces no
\* 'spatialSynth' synth definition for a patch containing spat5 boxes, while a
\* generator with no switch set produces it
C21_SkipSpatialHonoured ==
    (Generated /\ HasSpat5Box) =>
        /\ call.generator.skip_spatial => ~HasSynth("spatialSynth")
        /\ call.generator = ProjectGeneratorNew => HasSynth("spatialSynth")

\* the case: skip_spatial_objects() was called, the patch has a SPAT5 box,
\* and the project returned and the file written both hold 'spatialSynth'
C21_SpatialSynthGenerated ==
    /\ Generated
    /\ HasSpat5Box
    /\ call.generator.skip_spatial
    /\ HasSynth("spatialSynth")

\* what the code does: whatever switches were set, the project and the files
\* are those of a generator with no switch set
C21_SwitchesNotRead ==
    Generated =>
        /\ result = SCProject(patch)
        /\ \E before \in {WorkDir, OutDir} :
            LET plain == generate_project(ProjectGeneratorNew, before, patch, call.output_dir)
            IN  plain.ok /\ plain.project = result /\ plain.fs.files = fs.files

----------------------------------------------------------------------------
(* validation.rs and conversion.rs: one run of the converter.  A file       *)
(* holds either lines of text or the JSON text of a patch.                  *)

Text(lines) == [kind |-> "text", lines |-> lines]
PatchJson(p) == [kind |-> "patch", patch |-> p]

RECURSIVE blank(_)
blank(lines) == lines = <<>> \/ (trim(Head(lines)) = <<>> /\ blank(Tail(lines)))

\* content.trim_start().starts_with('{'); the JSON text of a patch does
RECURSIVE starts_with_brace(_)
starts_with_brace(lines) ==
    IF lines = <<>> THEN FALSE
    ELSE IF trim(Head(lines)) = <<>> THEN starts_with_brace(Tail(lines))
    ELSE Head(trim(Head(lines))) = "{"

\* validation.rs 12-71: Ok or Err, nothing changed
validate_input_file(f, path) ==
    IF ~exists(f, path) THEN FALSE
    ELSE IF ~is_file(f, path) THEN FALSE
    ELSE LET content == f.files[path]
         IN  content.kind = "patch" \/ starts_with_brace(content.lines)

\* validation.rs 74-132; a speaker configuration is a file of lines
validate_speaker_config(f, path) ==
    IF ~path.some THEN TRUE
    ELSE IF ~exists(f, path.val) THEN FALSE
    ELSE IF ~is_file(f, path.val) THEN FALSE
    ELSE ~blank(f.files[path.val].lines)

\* validate_output_directory that clears a directory it will overwrite
validate_output_directory_clearing(f, path, force) ==
    IF exists(f, path)
    THEN IF is_file(f, path) THEN [ok |-> FALSE, fs |-> f]
         ELSE IF entry_count(f, path) > 0 /\ ~force THEN [ok |-> FALSE, fs |-> f]
         ELSE IF entry_count(f, path) > 0
         THEN remove_dir_all(f, path, CHOOSE order \in ReadOrders(f, path) : TRUE)
         ELSE [ok |-> TRUE, fs |-> f]
    ELSE [ok |-> TRUE, fs |-> f]

\* validation.rs 135-188
validate_output_directory(f, path, force) ==
    IF exists(f, path)
    THEN IF is_file(f, path) THEN [ok |-> FALSE, fs |-> f]
         ELSE IF entry_count(f, path) > 0 /\ ~force THEN [ok |-> FALSE, fs |-> f]
         ELSE [ok |-> TRUE, fs |-> f]
    ELSE LET made == IF ~exists(f, parent(path)) THEN create_dir_all(f, parent(path))
                     ELSE [ok |-> TRUE, fs |-> f]
             test_file == join(parent(path), ".max2sc_write_test")
             written == write(made.fs, test_file, Text(<<<<"t", "e", "s", "t">>>>))
         IN  IF ~made.ok THEN made
             ELSE IF ~written.ok THEN written
             ELSE [ok |-> TRUE, fs |-> remove_file(written.fs, test_file).fs]

\* validation.rs 191-205
validate_all(f, input, output, speaker_config, force) ==
    IF ~validate_input_file(f, input) THEN [ok |-> FALSE, fs |-> f]
    ELSE IF ~validate_speaker_config(f, speaker_config) THEN [ok |-> FALSE, fs |-> f]
    ELSE validate_output_directory(f, output, force)

\* conversion.rs 104-130
validate_inputs(f, args) ==
    IF ~args.generate_config
    THEN IF args.input = <<"dummy.maxpat">> THEN [ok |-> FALSE, fs |-> f]
         ELSE validate_all(f, args.input, args.output, args.speaker_config, args.force)
    ELSE [ok |-> TRUE, fs |-> f]

\* json_parser.rs 8-17.  Of the files of the inputs only the JSON text of a
\* patch deserialises into a MaxPatch.
parse_patch_file(f, path) ==
    IF is_file(f, path) /\ f.files[path].kind = "patch"
    THEN [ok |-> TRUE, patch |-> f.files[path].patch]
    ELSE [ok |-> FALSE, patch |-> [boxes |-> <<>>, lines |-> <<>>]]

\* the second pass of build_from_patch with its early returns
RECURSIVE second_pass(_, _, _)
second_pass(g, m, lines) ==
    IF lines = <<>> THEN [ok |-> TRUE, graph |-> g]
    ELSE LET r == connect_line(g, m, Head(lines))
         IN  IF r.ok THEN second_pass(r.graph, m, Tail(lines))
             ELSE [ok |-> FALSE, graph |-> g]

\* build_from_patch: Ok(graph) or Err(InvalidRouting)
build_from_patch(p) ==
    LET fp == first_pass(p.boxes, new_graph, empty_map)
    IN  second_pass(fp.graph, fp.node_map, p.lines)

ends_with(s, c) == s # <<>> /\ s[Len(s)] = c

p_mc == <<"m", "c", ".">>

\* conversion.rs 241-274: what one box adds to audio_objects,
\* spatial_objects and multichannel_objects
counted_as(content) ==
    IF ~content.text.some THEN {}
    ELSE LET tokens == split_whitespace(content.text.val)
             obj_name == IF tokens = <<>> THEN <<>> ELSE tokens[1]
         IN  (IF ends_with(obj_name, "~") \/ starts_with(obj_name, p_spat5)
              THEN {"audio"} ELSE {})
             \cup (IF starts_with(obj_name, p_spat5) \/ starts_with(obj_name, p_pan)
                   THEN {"spatial"} ELSE {})
             \cup (IF starts_with(obj_name, p_mc) THEN {"multichannel"} ELSE {})

count_of(p, what) == Cardinality({i \in 1..Len(p.boxes) : what \in counted_as(p.boxes[i])})

analyze_object_types(p) ==
    [total_objects |-> Len(p.boxes),
     audio_objects |-> count_of(p, "audio"),
     spatial_objects |-> count_of(p, "spatial"),
     multichannel_objects |-> count_of(p, "multichannel")]

\* conversion.rs 293-311: the generator with the switches of the options
generator_of(options) ==
    LET g0 == ProjectGeneratorNew
        g1 == IF options.skip_spatial THEN skip_spatial_objects(g0) ELSE g0
        g2 == IF options.skip_multichannel THEN skip_multichannel_objects(g1) ELSE g1
        g3 == IF ~options.generate_osc THEN skip_osc_generation(g2) ELSE g2
    IN  IF options.simplified THEN use_simplified_mappings(g3) ELSE g3

\* conversion.rs 277-330, the files after it and whether it returned Ok;
\* `order` is the order in which the output directory is read when removed
runner_generate_project(f, args, p, analysis, speaker_config, order) ==
    LET removed == IF exists(f, args.output) /\ args.force
                   THEN remove_dir_all(f, args.output, order)
                   ELSE [ok |-> TRUE, fs |-> f]
        created == IF removed.ok THEN create_dir_all(removed.fs, args.output) ELSE removed
        generated == IF created.ok
                     THEN generate_project(generator_of(args.options), created.fs, p,
                                           args.output)
                     ELSE created
        speakers == IF generated.ok /\ speaker_config.some
                    THEN generate_speaker_config(generated.fs, speaker_config, args.output)
                    ELSE [ok |-> generated.ok, fs |-> generated.fs]
    IN  IF speakers.ok /\ args.verbose
        THEN write(speakers.fs, join(args.output, "conversion_report.md"),
                   [kind |-> "report", analysis |-> analysis, options |-> args.options])
        ELSE [ok |-> speakers.ok, fs |-> speakers.fs]

\* conversion.rs 80-99 for an output path other than ".": the examples go to
\* the output directory.  ConfigGenerator is not among the sources; the files
\* are the three that generate_config_files reports.
generate_config_files(f, args) ==
    in_turn(f, <<CreateDirAll(args.output),
                 Write(join(args.output, "example_speakers.txt"), [kind |-> "example"]),
                 Write(join(args.output, "max2sc_config.yaml"), [kind |-> "example"]),
                 CreateDirAll(join(args.output, "project_template"))>>)

----------------------------------------------------------------------------
(* The state machine of the entry points of the converter: one action per  *)
(* step of ConversionRunner::run (conversion.rs 40-77) and of               *)
(* ConversionRunner::_run_conversion (27-37), and convert::convert_patch    *)
(* (lib.rs 18-34), which calls the latter.  `call` holds the arguments and  *)
(* the files as they were before the call.                                  *)

input == <<"in.maxpat">>
speakers_txt == <<"speakers.txt">>

RunBoxes ==
    <<Box("obj-1", "newobj", Some(t_cycle), 2, 1),
      Box("obj-2", "newobj", Some(t_panoramix), 2, 8),
      Box("obj-3", "newobj", Some(t_dac), 2, 0)>>

\* a chain into a SPAT5 object, a patch without cables, a cable whose source
\* is no [id, outlet] pair, and a cable from a box that is not in the patch
RunPatches ==
    { [boxes |-> RunBoxes,
       lines |-> <<Cable("obj-1", u64_0, "obj-2", u64_0),
                   Cable("obj-2", u64_0, "obj-3", u64_0)>>],
      [boxes |-> SubSeq(RunBoxes, 1, 1), lines |-> <<>>],
      [boxes |-> RunBoxes,
       lines |-> <<Cable("obj-1", u64_0, "obj-2", u64_0),
                   PatchLine(JString("obj-2"), JArray(<<JString("obj-3"), JPosInt(u64_0)>>))>>],
      [boxes |-> RunBoxes,
       lines |-> <<Cable("obj-9", u64_0, "obj-3", u64_0)>>] }

\* what lies at the input path: nothing, a directory, or a file
InputFiles ==
    {PatchJson(p) : p \in RunPatches}
    \cup {Text(<<<<"h", "e", "l", "l", "o">>>>),
          Text(<<<<" ">>, <<" ", "{", " ", "o", "o", "p", "s">>>>)}

SpeakerFiles ==
    {Text(<<<<" ">>, <<>>>>),
     Text(<<AedLine(1, <<d_30, d_0, d_1_5>>).text, AedLine(2, <<d_0, d_0, d_1_5>>).text>>)}

OldFile == [OutDir EXCEPT !.files = (join(out, "old.scd") :> Text(<<>>))]

\* the output path: nothing there and nothing above it, nothing there under
\* a directory that is or is not writable, a file, an empty directory that
\* is or is not writable, a directory with a file in it, the same without
\* write permission on the directory or on the one above it, and a
\* directory with a file and a directory that cannot be emptied
OutputStates ==
    { EmptyFs,
      WorkDir,
      [WorkDir EXCEPT !.readonly = {work}],
      [WorkDir EXCEPT !.files = (out :> Text(<<>>))],
      OutDir,
      [OutDir EXCEPT !.readonly = {out}],
      OldFile,
      [OldFile EXCEPT !.readonly = {out}],
      [OldFile EXCEPT !.readonly = {work}],
      [OldFile EXCEPT !.dirs = @ \cup {join(out, "config")},
                      !.files = (join(join(out, "config"), "buses.yaml") :> Text(<<>>)) @@ @,
                      !.readonly = {join(out, "config")}] }

with_dir(f, path) == [f EXCEPT !.dirs = @ \cup {path}]
with_file(f, path, content) == [f EXCEPT !.files = (path :> content) @@ @]

RunFiles ==
    LET with_input(f) ==
            {f, with_dir(f, input)} \cup {with_file(f, input, c) : c \in InputFiles}
        with_speakers(f) ==
            {f, with_dir(f, speakers_txt)}
            \cup {with_file(f, speakers_txt, c) : c \in SpeakerFiles}
    IN  UNION {UNION {with_speakers(g) : g \in with_input(f)} : f \in OutputStates}

ConversionOptionsDefault ==
    [skip_spatial |-> FALSE, skip_multichannel |-> FALSE, generate_osc |-> TRUE,
     simplified |-> FALSE]

RunOptions ==
    { ConversionOptionsDefault,
      [ConversionOptionsDefault EXCEPT !.skip_spatial = TRUE],
      [skip_spatial |-> TRUE, skip_multichannel |-> TRUE, generate_osc |-> FALSE,
       simplified |-> TRUE] }

RunArgs ==
    [input : {input, <<"dummy.maxpat">>},
     output : {out},
     speaker_config : {None, Some(speakers_txt)},
     verbose : BOOLEAN, force : BOOLEAN, dry_run : BOOLEAN, generate_config : BOOLEAN,
     options : RunOptions]

\* lib.rs 20-30: the arguments convert_patch builds
convert_args(input_path, output_dir) ==
    [input |-> input_path, output |-> output_dir, speaker_config |-> None,
     verbose |-> FALSE, force |-> FALSE, dry_run |-> FALSE, generate_config |-> FALSE,
     options |-> ConversionOptionsDefault]

\* the arguments tried on _run_conversion, which reads input, output and
\* speaker_config
RunConversionArgs ==
    {args \in RunArgs : /\ ~args.verbose
                        /\ ~args.generate_config
                        /\ args.options = ConversionOptionsDefault}

ConvertPatchArgs == [input_path : {input, <<"dummy.maxpat">>}, output_dir : {out}]

RunCalls ==
    [fn : {"run"}, args : RunArgs]
    \cup [fn : {"_run_conversion"}, args : RunConversionArgs]
    \cup [fn : {"convert_patch"}, args : ConvertPatchArgs]

RunInit ==
    /\ \E called \in RunCalls, files \in RunFiles :
        /\ call = [fn |-> called.fn, args |-> called.args, before |-> files]
        /\ fs = files
    /\ patch = [boxes |-> <<>>, lines |-> <<>>]
    /\ osc_config = NotCalled
    /\ config = NotCalled
    /\ result = NotCalled
    /\ ret = "none"
    /\ pc = "run_call"
    /\ overflow_checks = FALSE
    /\ search = NotCalled
    /\ self = new_graph
    /\ graph = new_graph
    /\ node_map = empty_map
    /\ k = 0
    /\ sources = <<>>
    /\ sinks = <<>>
    /\ chains = <<>>

beyond_call ==
    <<config, overflow_checks, self, node_map, k, sources, sinks, chains, search>>

beyond_run ==
    <<call, config, overflow_checks, self, node_map, k, sources, sinks, chains, search>>

RunReturns(value) == pc' = "run_returned" /\ ret' = value

\* conversion.rs 48-50
GenerateConfigFiles ==
    /\ pc = "run_call"
    /\ call.fn = "run"
    /\ call.args.generate_config
    /\ LET r == generate_config_files(fs, call.args)
       IN  fs' = r.fs /\ RunReturns(IF r.ok THEN "Ok" ELSE "Err")
    /\ UNCHANGED <<patch, osc_config, graph, result>>
    /\ UNCHANGED beyond_run

\* conversion.rs 53
ValidateInputs ==
    /\ pc = "run_call"
    /\ call.fn = "run"
    /\ ~call.args.generate_config
    /\ LET r == validate_inputs(fs, call.args)
       IN  /\ fs' = r.fs
           /\ IF r.ok THEN pc' = "validated" /\ ret' = ret ELSE RunReturns("Err")
    /\ UNCHANGED <<patch, osc_config, graph, result>>
    /\ UNCHANGED beyond_run

\* conversion.rs 55-58
DryRun ==
    /\ pc = "validated"
    /\ call.args.dry_run
    /\ RunReturns("Ok")
    /\ UNCHANGED <<fs, patch, osc_config, graph, result>>
    /\ UNCHANGED beyond_run

\* lib.rs 18-34: convert_patch makes a runner of its two paths and calls
\* _run_conversion on it
ConvertPatch ==
    /\ pc = "run_call"
    /\ call.fn = "convert_patch"
    /\ call' = [fn |-> "_run_conversion",
                args |-> convert_args(call.args.input_path, call.args.output_dir),
                before |-> call.before]
    /\ UNCHANGED <<pc, ret, fs, patch, osc_config, graph, result>>
    /\ UNCHANGED beyond_call

\* conversion.rs 132-181: load_input_files
load_input_files ==
    /\ LET parsed == parse_patch_file(fs, call.args.input)
           speaker_path == call.args.speaker_config
       IN  IF ~parsed.ok
           THEN RunReturns("Err") /\ UNCHANGED <<patch, osc_config>>
           ELSE IF ~speaker_path.some
           THEN /\ patch' = parsed.patch
                /\ osc_config' = NoOsc
                /\ pc' = "loaded"
                /\ ret' = ret
           ELSE IF ~is_file(fs, speaker_path.val)
           THEN RunReturns("Err") /\ UNCHANGED <<patch, osc_config>>
           ELSE LET content == fs.files[speaker_path.val].lines
                IN  \E bus_order \in IterationOrders(buses_of(content)) :
                        LET read == parse_osc_text(content, bus_order)
                        IN  /\ patch' = parsed.patch
                            /\ osc_config' = [some |-> TRUE,
                                              speaker_arrays |-> read.speaker_arrays,
                                              commands |-> read.commands]
                            /\ pc' = "loaded"
                            /\ ret' = ret
    /\ UNCHANGED <<fs, graph, result>>
    /\ UNCHANGED beyond_run

\* conversion.rs 61
LoadInputFiles ==
    /\ pc = "validated"
    /\ call.fn = "run"
    /\ ~call.args.dry_run
    /\ load_input_files

\* conversion.rs 29: _run_conversion starts with load_input_files; nothing is
\* validated and dry_run is not read
RunConversionLoad ==
    /\ pc = "run_call"
    /\ call.fn = "_run_conversion"
    /\ load_input_files

\* conversion.rs 64 and 32, 184-238
AnalyzePatch ==
    /\ pc = "loaded"
    /\ LET built == build_from_patch(patch)
       IN  IF built.ok
           THEN /\ graph' = built.graph
                /\ result' = [object_stats |-> analyze_object_types(patch),
                              node_count |-> Len(built.graph.nodes)]
                /\ pc' = "patch_analyzed"
                /\ ret' = ret
           ELSE RunReturns("InvalidRouting") /\ UNCHANGED <<graph, result>>
    /\ UNCHANGED <<fs, patch, osc_config>>
    /\ UNCHANGED beyond_run

\* conversion.rs 67-76, 277-330
RunGenerateProject ==
    /\ pc = "patch_analyzed"
    /\ call.fn = "run"
    /\ \E order \in ReadOrders(fs, call.args.output) :
        LET r == runner_generate_project(fs, call.args, patch, result, osc_config, order)
        IN  fs' = r.fs /\ RunReturns(IF r.ok THEN "Ok" ELSE "Err")
    /\ UNCHANGED <<patch, osc_config, graph, result>>
    /\ UNCHANGED beyond_run

\* conversion.rs 35-36: ProjectGenerator::new().generate_project(&patch,
\* &self.args.output), with no test of force and no removal; the project is
\* returned
RunConversionGenerate ==
    /\ pc = "patch_analyzed"
    /\ call.fn = "_run_conversion"
    /\ LET r == generate_project(ProjectGeneratorNew, fs, patch, call.args.output)
       IN  /\ fs' = r.fs
           /\ IF r.ok
              THEN RunReturns("Ok") /\ result' = [project |-> r.project]
              ELSE RunReturns("Err") /\ result' = result
    /\ UNCHANGED <<patch, osc_config, graph>>
    /\ UNCHANGED beyond_run

RunNext ==
    \/ ConvertPatch
    \/ RunConversionLoad
    \/ RunConversionGenerate
    \/ GenerateConfigFiles
    \/ ValidateInputs
    \/ DryRun
    \/ LoadInputFiles
    \/ AnalyzePatch
    \/ RunGenerateProject

SpecRun == RunInit /\ [][RunNext]_vars

----------------------------------------------------------------------------
(* Claims on the run of the converter *)

Running == call.fn = "run"
DryRunOnly == Running /\ call.args.dry_run /\ ~call.args.generate_config

NothingLoaded ==
    /\ patch = [boxes |-> <<>>, lines |-> <<>>]
    /\ osc_config = NotCalled
    /\ graph = new_graph
    /\ result = NotCalled

\* C25: with dry_run set and generate_config unset, run never loads, analyzes
\* or generates the project, and never creates, writes or removes the output
\* directory or any other file or directory
C25_DryRunChangesNothing ==
    DryRunOnly =>
        /\ NothingLoaded
        /\ pc \in {"run_call", "validated", "run_returned"}
        /\ fs.log = <<>>
        /\ fs.dirs = call.before.dirs
        /\ DOMAIN fs.files = DOMAIN call.before.files

\* the case: a dry run that returned Ok after it created the directory above
\* the output path, which stays, and wrote and removed a file in it
C25_DirectoryCreated ==
    /\ DryRunOnly
    /\ pc = "run_returned"
    /\ ret = "Ok"
    /\ work \notin call.before.dirs
    /\ work \in fs.dirs
    /\ fs.log = <<[op |-> "create_dir", path |-> work],
                  [op |-> "write", path |-> join(work, ".max2sc_write_test")],
                  [op |-> "remove_file", path |-> join(work, ".max2sc_write_test")]>>

\* the case: a dry run on an existing, writable directory above the output
\* path wrote and removed the test file
C25_TestFileWritten ==
    /\ DryRunOnly
    /\ pc = "run_returned"
    /\ work \in call.before.dirs
    /\ fs.log = <<[op |-> "write", path |-> join(work, ".max2sc_write_test")],
                  [op |-> "remove_file", path |-> join(work, ".max2sc_write_test")]>>

\* what a dry run does: it loads, analyzes and generates nothing, the output
\* path is left as it was, no file is left behind or changed, and the only
\* changes are those of the write test of validate_output_directory, made
\* when nothing lies at the output path
C25_DryRunLeavesOutput ==
    DryRunOnly =>
        /\ NothingLoaded
        /\ pc \in {"run_call", "validated", "run_returned"}
        /\ \A q \in fs.dirs \cup call.before.dirs \cup DOMAIN fs.files :
            below(call.args.output, q) => exists(call.before, q)
        /\ fs.files = call.before.files
        /\ fs.dirs \subseteq call.before.dirs \cup {parent(call.args.output)}
        /\ call.before.dirs \subseteq fs.dirs
        /\ fs.log # <<>> => ~exists(call.before, call.args.output)
        /\ \A i \in 1..Len(fs.log) :
            fs.log[i].path \in {parent(call.args.output),
                                join(parent(call.args.output), ".max2sc_write_test")}

\* the changes a step makes at or below the output path
OutputChanges(before, after) ==
    {i \in (Len(before.log) + 1)..Len(after.log) : below(call.args.output, after.log[i].path)}

SameAtOutput(f, g) ==
    /\ \A q \in f.dirs \cup g.dirs : below(call.args.output, q) => (q \in f.dirs <=> q \in g.dirs)
    /\ \A q \in DOMAIN f.files \cup DOMAIN g.files :
        below(call.args.output, q) =>
            /\ q \in DOMAIN f.files <=> q \in DOMAIN g.files
            /\ q \in DOMAIN f.files => f.files[q] = g.files[q]

\* the input file was parsed into `patch` and the graph of `patch` was built
ParsedAndBuilt ==
    /\ validate_inputs(call.before, call.args).ok
    /\ parse_patch_file(fs, call.args.input).ok
    /\ patch = parse_patch_file(fs, call.args.input).patch
    /\ build_from_patch(patch).ok
    /\ graph = build_from_patch(patch).graph

Conversion == Running /\ ~call.args.generate_config

\* C27: the steps of a conversion are ordered validate, parse, build graph,
\* generate; the output directory is removed (under --force) and project
\* files are written only by the step that follows the successful parse of
\* the patch and construction of its graph; and a run whose graph
\* construction fails with InvalidRouting has returned an error with
\* everything at the output path as it was before the run
C27_GenerateAfterGraph ==
    /\ [][Conversion =>
            /\ pc' = "validated" => pc = "run_call"
            /\ pc' = "loaded" => pc = "validated"
            /\ pc' = "patch_analyzed" => pc = "loaded"
            /\ OutputChanges(fs, fs') # {} =>
                /\ pc = "patch_analyzed"
                /\ pc' = "run_returned"
                /\ ParsedAndBuilt
                /\ \A i \in OutputChanges(fs, fs') :
                    fs'.log[i].op \in {"remove_dir", "remove_file"} =>
                        /\ call.args.force
                        /\ exists(call.before, fs'.log[i].path)]_vars
    /\ [](Conversion /\ ret = "InvalidRouting" =>
            /\ pc = "run_returned"
            /\ ~build_from_patch(patch).ok
            /\ SameAtOutput(call.before, fs)
            /\ OutputChanges(call.before, fs) = {})

\* the case: under --force a run removed a directory that held a file and
\* wrote the project in its place
C27_Witness ==
    /\ Conversion
    /\ pc = "run_returned"
    /\ ret = "Ok"
    /\ call.args.force
    /\ is_file(call.before, join(out, "old.scd"))
    /\ ~is_file(fs, join(out, "old.scd"))
    /\ is_file(fs, join(out, "main.scd"))
    /\ fs.log[1] = [op |-> "remove_file", path |-> join(out, "old.scd")]
    /\ fs.log[2] = [op |-> "remove_dir", path |-> out]

\* the case: under --force, with a file in the output directory, a cable
\* whose source is no [id, outlet] pair ended the run
C27_RoutingFailureReached ==
    /\ Conversion
    /\ ret = "InvalidRouting"
    /\ call.args.force
    /\ is_file(call.before, join(out, "old.scd"))
    /\ is_file(fs, join(out, "old.scd"))
    /\ fs = call.before
    /\ \E i \in 1..Len(patch.lines) : ~parse_connection_endpoint(patch.lines[i].source).ok

----------------------------------------------------------------------------
(* converters/spatial.rs, audio_io.rs, multichannel.rs: one box to one      *)
(* SCObject                                                                 *)

n_pan == <<"p", "a", "n", "~">>
n_pan2 == <<"p", "a", "n", "2", "~">>
n_pan4 == <<"p", "a", "n", "4", "~">>
n_pan8 == <<"p", "a", "n", "8", "~">>
n_stereo == <<"s", "t", "e", "r", "e", "o", "~">>
n_matrix == <<"m", "a", "t", "r", "i", "x", "~">>
n_spat5_pan == <<"s", "p", "a", "t", "5", ".", "p", "a", "n", "~">>
n_spat5_stereo == <<"s", "p", "a", "t", "5", ".", "s", "t", "e", "r", "e", "o", "~">>
n_hoa_rotate == <<"s", "p", "a", "t", "5", ".", "h", "o", "a", ".", "r", "o", "t", "a", "t", "e", "~">>
n_spat5_reverb == <<"s", "p", "a", "t", "5", ".", "r", "e", "v", "e", "r", "b", "~">>
n_spat5_early == <<"s", "p", "a", "t", "5", ".", "e", "a", "r", "l", "y", "~">>
n_ezdac == <<"e", "z", "d", "a", "c", "~">>
n_ezadc == <<"e", "z", "a", "d", "c", "~">>
n_out == <<"o", "u", "t", "~">>
n_in == <<"i", "n", "~">>
n_mc_pack == <<"m", "c", ".", "p", "a", "c", "k", "~">>
n_mc_unpack == <<"m", "c", ".", "u", "n", "p", "a", "c", "k", "~">>
n_mc_live_gain == <<"m", "c", ".", "l", "i", "v", "e", ".", "g", "a", "i", "n", "~">>

i32_MAX == 2147483647
i32_MIN == -2147483647 - 1

RECURSIVE without_leading_zeros(_)
without_leading_zeros(ds) ==
    IF Len(ds) > 1 /\ Head(ds) = "0" THEN without_leading_zeros(Tail(ds)) ELSE ds

\* str::parse::<i32>().ok(): an optional sign and one or more digits that
\* spell a number from i32::MIN to i32::MAX
parse_i32_full(value) ==
    LET ds == without_leading_zeros(unsigned(value))
        high == decimal_value(SubSeq(ds, 1, 9))
        last == digit_value(ds[10])
        none == [some |-> FALSE, val |-> 0]
    IN  IF ~all_digits(unsigned(value)) THEN none
        ELSE IF Len(ds) <= 9 THEN parse_i32(value)
        ELSE IF Len(ds) > 10 THEN none
        ELSE IF high > i32_MAX \div 10 THEN none
        ELSE IF high = i32_MAX \div 10 /\ last > (IF negative(value) THEN 8 ELSE 7) THEN none
        ELSE [some |-> TRUE,
              val |-> IF negative(value) THEN (0 - high * 10) - last ELSE high * 10 + last]

\* ch - 1 on i32: i32::MIN - 1 overflows, which panics in a build with
\* overflow checks and wraps to i32::MAX in one without
minus_1_overflows(ch) == ch = i32_MIN
wrapping_minus_1(ch) == IF ch = i32_MIN THEN i32_MAX ELSE ch - 1

\* `n as i32` for the inlet and outlet counts of the inputs, all below 2^31
count_as_i32(n) == IF n <= i32_MAX THEN n ELSE n - i32_MAX - i32_MAX - 2

SCObject(class_name, method, arg_list, property_list) ==
    [class_name |-> class_name, args |-> arg_list, method |-> method,
     properties |-> property_list]

Prop(name, value) == <<name, value>>

\* format!(...) as the template and the values put into it
Formatted(template, values) == SCString([template |-> template, values |-> values])

\* args.get(i).and_then(|s| s.parse::<i32>().ok()).unwrap_or(default)
i32_arg(args, i, default) ==
    IF i <= Len(args) THEN unwrap_or(parse_i32_full(args[i]), default) ELSE default

\* args.get(i).and_then(|s| s.parse::<f32>().ok()).unwrap_or(default)
f32_arg(args, i, default) ==
    IF i <= Len(args) THEN unwrap_or(parse_f32(args[i]), default) ELSE default

\* spatial.rs 36-52
convert_pan(args) ==
    LET default_pos == f32_arg(args, 1, f32_of(1, 2))
        sc_pos == f32_sub(f32_mul(default_pos, F(2)), F(1))
    IN  SCObject("Pan2", Some("ar"), <<SCSymbol("input"), SCFloat(sc_pos), SCFloat(F(1))>>,
                 <<Prop("comment", SCString("pan~"))>>)

\* spatial.rs 60-80
convert_pan4(args) ==
    SCObject("Pan4", Some("ar"),
             <<SCSymbol("input"), SCFloat(f32_arg(args, 1, F(0))),
               SCFloat(f32_arg(args, 2, F(0))), SCFloat(F(1))>>,
             <<Prop("comment", SCString("pan4~"))>>)

\* spatial.rs 83-101
convert_pan8(args) ==
    SCObject("PanAz", Some("ar"),
             <<SCInt(8), SCSymbol("input"), SCFloat(f32_mul(f32_arg(args, 1, F(0)), F(2))),
               SCFloat(F(1)), SCFloat(F(2)), SCInt(0)>>,
             <<Prop("comment", SCString("pan8~"))>>)

\* spatial.rs 104-109
convert_stereo ==
    SCObject("Array", None, <<SCSymbol("inputL"), SCSymbol("inputR")>>,
             <<Prop("comment", SCString("stereo~"))>>)

\* spatial.rs 112-129
convert_matrix(args, content) ==
    LET num_ins == i32_arg(args, 1, count_as_i32(content.numinlets))
        num_outs == i32_arg(args, 2, count_as_i32(content.numoutlets))
    IN  SCObject("Matrix", Some("ar"), <<SCInt(num_ins), SCInt(num_outs), SCSymbol("input")>>,
                 <<Prop("comment", Formatted("matrix~ {}x{}", <<num_ins, num_outs>>))>>)

\* the FOA object for order 1, the HOA object with the order otherwise
by_order(order, foa, hoa) == IF order = 1 THEN foa ELSE hoa

\* spatial.rs 132-356
convert_spat5_basic(obj_name, args) ==
    IF obj_name = p_panoramix
    THEN SCObject("SpatPanoramix", Some("ar"),
                  <<SCSymbol("input"), SCInt(i32_arg(args, 1, 1)), SCInt(i32_arg(args, 2, 8)),
                    SCArray(<<SCSymbol("azimuth"), SCSymbol("elevation"),
                              SCSymbol("distance")>>)>>,
                  <<Prop("format", SCString("VBAP")), Prop("room_model", SCString("basic")),
                    Prop("reverb_enable", SCInt(1)), Prop("early_reflections", SCInt(1)),
                    Prop("comment", SCString("spat5.panoramix~ - main spatialization engine"))>>)
    ELSE IF obj_name = n_spat5_pan
    THEN SCObject("VBAP", Some("ar"),
                  <<SCInt(i32_arg(args, 1, 8)), SCSymbol("input"), SCSymbol("azimuth"),
                    SCSymbol("elevation"), SCSymbol("spread")>>,
                  <<Prop("comment", SCString("spat5.pan~"))>>)
    ELSE IF obj_name = n_spat5_stereo
    THEN SCObject("Splay", Some("ar"),
                  <<SCSymbol("input"), SCFloat(F(1)), SCFloat(F(1)), SCFloat(F(0))>>,
                  <<Prop("comment", SCString("spat5.stereo~"))>>)
    ELSE IF obj_name = n_hoa_encoder
    THEN LET order == i32_arg(args, 1, 1)
         IN  by_order(order,
                 SCObject("FoaEncode", Some("ar"),
                          <<SCSymbol("input"), SCSymbol("azimuth"), SCSymbol("elevation")>>,
                          <<Prop("encoder_type", SCString("omni")),
                            Prop("comment", SCString("spat5.hoa.encoder~ (FOA)"))>>),
                 SCObject("HoaEncodeMatrix", Some("ar"),
                          <<SCInt(order), SCSymbol("input"), SCSymbol("azimuth"),
                            SCSymbol("elevation")>>,
                          <<Prop("comment",
                                 Formatted("spat5.hoa.encoder~ (order {})", <<order>>))>>))
    ELSE IF obj_name = n_hoa_decoder
    THEN LET order == i32_arg(args, 1, 1)
             num_speakers == i32_arg(args, 2, 8)
         IN  by_order(order,
                 SCObject("FoaDecode", Some("ar"),
                          <<SCSymbol("encoded_input"), SCSymbol("decoder_matrix")>>,
                          <<Prop("num_speakers", SCInt(num_speakers)),
                            Prop("comment", SCString("spat5.hoa.decoder~ (FOA)"))>>),
                 SCObject("HoaDecodeMatrix", Some("ar"),
                          <<SCInt(order), SCInt(num_speakers), SCSymbol("encoded_input")>>,
                          <<Prop("comment",
                                 Formatted("spat5.hoa.decoder~ (order {})", <<order>>))>>))
    ELSE IF obj_name = n_hoa_rotate
    THEN LET order == i32_arg(args, 1, 1)
         IN  by_order(order,
                 SCObject("FoaRotate", Some("ar"),
                          <<SCSymbol("encoded_input"), SCSymbol("azimuth"),
                            SCSymbol("elevation"), SCSymbol("roll")>>,
                          <<Prop("comment", SCString("spat5.hoa.rotate~ (FOA)"))>>),
                 SCObject("HoaRotate", Some("ar"),
                          <<SCInt(order), SCSymbol("encoded_input"), SCSymbol("azimuth"),
                            SCSymbol("elevation")>>,
                          <<Prop("comment",
                                 Formatted("spat5.hoa.rotate~ (order {})", <<order>>))>>))
    ELSE IF obj_name = n_vbap
    THEN SCObject("VBAP", Some("ar"),
                  <<SCInt(i32_arg(args, 1, 8)), SCSymbol("input"), SCSymbol("azimuth"),
                    SCSymbol("elevation"), SCSymbol("spread")>>,
                  <<Prop("speaker_setup", SCString("ring")),
                    Prop("comment", SCString("spat5.vbap~"))>>)
    ELSE IF obj_name = n_spat5_reverb
    THEN SCObject("JPverb", Some("ar"),
                  <<SCSymbol("input"), SCSymbol("rt60"), SCSymbol("damping"), SCSymbol("size"),
                    SCSymbol("early_diff"), SCSymbol("mod_depth"), SCSymbol("mod_freq"),
                    SCSymbol("low"), SCSymbol("mid"), SCSymbol("high"),
                    SCSymbol("hf_damping")>>,
                  <<Prop("num_outputs", SCInt(i32_arg(args, 1, 2))),
                    Prop("comment", SCString("spat5.reverb~"))>>)
    ELSE IF obj_name = n_spat5_early
    THEN SCObject("EarlyReflections", Some("ar"),
                  <<SCSymbol("input"), SCInt(i32_arg(args, 1, 8)), SCSymbol("room_size"),
                    SCSymbol("damping"),
                    SCArray(<<SCSymbol("delay_times"), SCSymbol("gains"),
                              SCSymbol("pan_positions")>>)>>,
                  <<Prop("comment", SCString("spat5.early~ - early reflections"))>>)
    ELSE SCObject("SPAT5_Placeholder", None, <<SCString(obj_name)>>,
                  <<Prop("comment", Formatted("{} - needs implementation", <<obj_name>>))>>)

\* spatial.rs 11-33
SpatialConverter_convert(content) ==
    LET parts == split_whitespace(unwrap_or_empty(content.text))
        obj_name == parts[1]
        args == Tail(parts)
    IN  IF parts = <<>> THEN Ok(SCObject("Unknown", None, <<>>, <<>>))
        ELSE IF obj_name \in {n_pan, n_pan2} THEN Ok(convert_pan(args))
        ELSE IF obj_name = n_pan4 THEN Ok(convert_pan4(args))
        ELSE IF obj_name = n_pan8 THEN Ok(convert_pan8(args))
        ELSE IF obj_name = n_stereo THEN Ok(convert_stereo)
        ELSE IF obj_name = n_matrix THEN Ok(convert_matrix(args, content))
        ELSE IF starts_with(obj_name, p_spat5) THEN Ok(convert_spat5_basic(obj_name, args))
        ELSE Ok(SCObject("UnknownSpatial", None, <<SCString(obj_name)>>, <<>>))

\* the loop `if let Ok(ch) = arg.parse::<i32>() { channels.push(ch - 1) }`
RECURSIVE channels_of(_)
channels_of(args) ==
    IF args = <<>> THEN <<>>
    ELSE LET ch == parse_i32_full(Head(args))
         IN  (IF ch.some THEN <<wrapping_minus_1(ch.val)>> ELSE <<>>)
             \o channels_of(Tail(args))

\* whether that loop panics
channels_panic(args, checks) ==
    /\ checks
    /\ \E i \in 1..Len(args) :
        parse_i32_full(args[i]).some /\ minus_1_overflows(parse_i32_full(args[i]).val)

ints(channels) == SCArray([i \in 1..Len(channels) |-> SCInt(channels[i])])

\* audio_io.rs 35-75
convert_dac(args, checks) ==
    LET given == channels_of(args)
        channels == IF given = <<>> THEN <<0, 1>> ELSE given
    IN  IF channels_panic(args, checks) THEN Panicked
        ELSE IF Len(channels) = 1
        THEN Ok(SCObject("Out", Some("ar"), <<SCInt(channels[1]), SCSymbol("input")>>, <<>>))
        ELSE IF Len(channels) = 2 /\ channels[1] = 0 /\ channels[2] = 1
        THEN Ok(SCObject("Out", Some("ar"),
                         <<SCInt(0), SCArray(<<SCSymbol("inputL"), SCSymbol("inputR")>>)>>,
                         <<>>))
        ELSE Ok(SCObject("Out", Some("ar"), <<ints(channels), SCSymbol("input")>>, <<>>))

\* audio_io.rs 78-110
convert_adc(args, checks) ==
    LET given == channels_of(args)
        channels == IF given = <<>> THEN <<0, 1>> ELSE given
    IN  IF channels_panic(args, checks) THEN Panicked
        ELSE IF Len(channels) = 1
        THEN Ok(SCObject("SoundIn", Some("ar"), <<SCInt(channels[1])>>, <<>>))
        ELSE IF Len(channels) = 2 /\ channels[1] = 0 /\ channels[2] = 1
        THEN Ok(SCObject("SoundIn", Some("ar"), <<SCArray(<<SCInt(0), SCInt(1)>>)>>, <<>>))
        ELSE Ok(SCObject("SoundIn", Some("ar"), <<ints(channels)>>, <<>>))

\* audio_io.rs 132-143
convert_out(args, checks) ==
    LET outlet_num == i32_arg(args, 1, 1)
        index == wrapping_minus_1(outlet_num)
    IN  IF checks /\ minus_1_overflows(outlet_num) THEN Panicked
        ELSE Ok(SCObject("Out", None, <<SCInt(index), SCSymbol("signal")>>,
                         <<Prop("comment", Formatted("out~ {}", <<outlet_num>>))>>))

\* audio_io.rs 146-155
convert_in(args, checks) ==
    LET inlet_num == i32_arg(args, 1, 1)
        index == wrapping_minus_1(inlet_num)
    IN  IF checks /\ minus_1_overflows(inlet_num) THEN Panicked
        ELSE Ok(SCObject("In", None, <<SCInt(index)>>,
                         <<Prop("comment", Formatted("in~ {}", <<inlet_num>>))>>))

\* audio_io.rs 11-32; Panicked where the arithmetic of a branch panics
AudioIOConverter_convert(content, checks) ==
    LET parts == split_whitespace(unwrap_or_empty(content.text))
        obj_name == parts[1]
        args == Tail(parts)
    IN  IF parts = <<>> THEN Ok(SCObject("Unknown", None, <<>>, <<>>))
        ELSE IF obj_name = p_dac THEN convert_dac(args, checks)
        ELSE IF obj_name = p_adc THEN convert_adc(args, checks)
        ELSE IF obj_name = n_ezdac
        THEN Ok(SCObject("Out", Some("ar"),
                         <<SCInt(0), SCArray(<<SCSymbol("inputL"), SCSymbol("inputR")>>)>>,
                         <<Prop("comment", SCString("ezdac~ - simple stereo output"))>>))
        ELSE IF obj_name = n_ezadc
        THEN Ok(SCObject("SoundIn", Some("ar"), <<SCArray(<<SCInt(0), SCInt(1)>>)>>,
                         <<Prop("comment", SCString("ezadc~ - simple stereo input"))>>))
        ELSE IF obj_name = n_out THEN convert_out(args, checks)
        ELSE IF obj_name = n_in THEN convert_in(args, checks)
        ELSE Ok(SCObject("UnknownIO", None, <<SCString(obj_name)>>, <<>>))

\* (0..num_channels).collect()
range_to(num_channels) == [i \in 1..num_channels |-> i - 1]

\* multichannel.rs 62-84 and 87-105: the channels named, or as many as the
\* box has inlets (mc.dac~) or outlets (mc.adc~)
mc_channels(args, count) ==
    LET given == channels_of(args)
    IN  IF given = <<>> THEN range_to(count_as_i32(count)) ELSE given

\* 10.0_f32.powf(x) for a whole x
powf_10(x) ==
    CASE x.den = 1 /\ x.num >= 0 -> f32_of(pow10(x.num), 1)
      [] x.den = 1 /\ x.num < 0 -> f32_of(1, pow10(0 - x.num))

\* multichannel.rs 11-33; Panicked where the arithmetic of a branch panics
MultichannelConverter_convert(content, checks) ==
    LET parts == split_whitespace(unwrap_or_empty(content.text))
        obj_name == parts[1]
        args == Tail(parts)
    IN  IF parts = <<>> THEN Ok(SCObject("Unknown", None, <<>>, <<>>))
        ELSE IF obj_name = n_mc_pack
        THEN Ok(SCObject("Array", None, <<>>,
                         <<Prop("comment",
                                Formatted("mc.pack~ {} channels", <<i32_arg(args, 1, 2)>>))>>))
        ELSE IF obj_name = n_mc_unpack
        THEN Ok(SCObject("ArrayIndex", None, <<>>,
                         <<Prop("comment",
                                Formatted("mc.unpack~ {} channels", <<i32_arg(args, 1, 2)>>))>>))
        ELSE IF obj_name = p_mc_dac
        THEN LET channels == mc_channels(args, content.numinlets)
             IN  IF channels_panic(args, checks) THEN Panicked
                 ELSE Ok(SCObject("Out", Some("ar"), <<ints(channels), SCSymbol("input")>>,
                                  <<>>))
        ELSE IF obj_name = p_mc_adc
        THEN LET channels == mc_channels(args, content.numoutlets)
             IN  IF channels_panic(args, checks) THEN Panicked
                 ELSE Ok(SCObject("In", Some("ar"), <<ints(channels)>>, <<>>))
        ELSE IF obj_name = n_mc_live_gain
        THEN LET default_gain == f32_arg(args, 1, F(0))
                 linear_gain == IF default_gain.nan THEN NaN
                                ELSE powf_10(f32_of(default_gain.num, default_gain.den * 20))
             IN  Ok(SCObject("*", None, <<SCSymbol("input"), SCFloat(linear_gain)>>,
                             <<Prop("lag", SCFloat(f32_of(1, 10))),
                               Prop("comment", SCString("mc.live.gain~"))>>))
        ELSE Ok(SCObject("UnknownMC", None, <<SCString(obj_name)>>, <<>>))

----------------------------------------------------------------------------
(* Inputs and state machine of the object converters and of                 *)
(* analyze_spatial_objects: one call on one box, or on a patch.             *)

c_pan == <<"p", "a", "n", "~", " ", "0", ".", "2", "5">>
c_pan2 == <<"p", "a", "n", "2", "~">>
c_pan4 == <<"p", "a", "n", "4", "~", " ", "0", ".", "5", " ", "n", "a", "n">>
c_pan8 == <<"p", "a", "n", "8", "~", " ", "0", ".", "5">>
c_stereo == <<"s", "t", "e", "r", "e", "o", "~">>
c_matrix == <<"m", "a", "t", "r", "i", "x", "~", " ", "4">>
c_panoramix == <<"s", "p", "a", "t", "5", ".", "p", "a", "n", "o", "r", "a", "m", "i", "x", "~", " ", "2", " ", "1", "6">>
c_spat5_pan == <<"s", "p", "a", "t", "5", ".", "p", "a", "n", "~">>
c_spat5_stereo == <<"s", "p", "a", "t", "5", ".", "s", "t", "e", "r", "e", "o", "~", " ", "2">>
c_encoder == <<"s", "p", "a", "t", "5", ".", "h", "o", "a", ".", "e", "n", "c", "o", "d", "e", "r", "~", " ", "3">>
c_decoder == <<" ", " ", "s", "p", "a", "t", "5", ".", "h", "o", "a", ".", "d", "e", "c", "o", "d", "e", "r", "~", " ", "1", " ", "4">>
c_rotate == <<"s", "p", "a", "t", "5", ".", "h", "o", "a", ".", "r", "o", "t", "a", "t", "e", "~", " ", "x">>
c_vbap == <<"s", "p", "a", "t", "5", ".", "v", "b", "a", "p", "~", " ", "6">>
c_reverb == <<"s", "p", "a", "t", "5", ".", "r", "e", "v", "e", "r", "b", "~">>
c_early == <<"s", "p", "a", "t", "5", ".", "e", "a", "r", "l", "y", "~", " ", "4">>
c_viewer == <<"s", "p", "a", "t", "5", ".", "v", "i", "e", "w", "e", "r">>
c_blank == <<" ", " ">>
c_foo == <<"f", "o", "o", "~", " ", "1">>
c_metro == <<"m", "e", "t", "r", "o", " ", "1", "0", "0">>
c_dac == <<"d", "a", "c", "~">>
c_dac_1_2 == <<"d", "a", "c", "~", " ", "1", " ", "2">>
c_dac_3 == <<"d", "a", "c", "~", " ", "3">>
c_dac_x == <<"d", "a", "c", "~", " ", "1", " ", "x", " ", "4">>
c_dac_min == <<"d", "a", "c", "~", " ", "-", "2", "1", "4", "7", "4", "8", "3", "6", "4", "8">>
c_adc == <<"a", "d", "c", "~", " ", "1">>
c_adc_max == <<"a", "d", "c", "~", " ", "2", " ", "2", "1", "4", "7", "4", "8", "3", "6", "4", "7">>
c_ezdac == <<"e", "z", "d", "a", "c", "~">>
c_ezadc == <<"e", "z", "a", "d", "c", "~">>
c_out == <<"o", "u", "t", "~", " ", "2">>
c_out_min == <<"o", "u", "t", "~", " ", "-", "2", "1", "4", "7", "4", "8", "3", "6", "4", "8">>
c_in == <<"i", "n", "~">>
c_in_over == <<"i", "n", "~", " ", "2", "1", "4", "7", "4", "8", "3", "6", "4", "8">>
c_mc_pack == <<"m", "c", ".", "p", "a", "c", "k", "~", " ", "4">>
c_mc_unpack == <<"m", "c", ".", "u", "n", "p", "a", "c", "k", "~">>
c_mc_dac == <<"m", "c", ".", "d", "a", "c", "~", " ", "1", " ", "2", " ", "3">>
c_mc_dac_plain == <<"m", "c", ".", "d", "a", "c", "~">>
c_mc_adc == <<"m", "c", ".", "a", "d", "c", "~">>
c_mc_adc_min == <<"m", "c", ".", "a", "d", "c", "~", " ", "1", " ", "-", "2", "1", "4", "7", "4", "8", "3", "6", "4", "8">>
c_mc_gain == <<"m", "c", ".", "l", "i", "v", "e", ".", "g", "a", "i", "n", "~", " ", "-", "2", "0">>
c_mc_gain_plain == <<"m", "c", ".", "l", "i", "v", "e", ".", "g", "a", "i", "n", "~">>
c_mc_foo == <<"m", "c", ".", "f", "o", "o", "~", " ", "2">>

ConvertTexts ==
    {c_pan, c_pan2, c_pan4, c_pan8, c_stereo, c_matrix, c_panoramix, c_spat5_pan,
     c_spat5_stereo, c_encoder, c_decoder, c_rotate, c_vbap, c_reverb, c_early,
     c_viewer, c_blank, c_foo, c_metro, c_dac, c_dac_1_2, c_dac_3, c_dac_x, c_dac_min,
     c_adc, c_adc_max, c_ezdac, c_ezadc, c_out, c_out_min, c_in, c_in_over, c_mc_pack,
     c_mc_unpack, c_mc_dac, c_mc_dac_plain, c_mc_adc, c_mc_adc_min, c_mc_gain,
     c_mc_gain_plain, c_mc_foo}

MaxConvertBoxes == 2    \* most boxes of an analysed patch

\* every text in a box with two inlets and eight outlets, and a box
\* without text
ConvertBoxes ==
    {Box("obj-1", "newobj", Some(text), 2, 8) : text \in ConvertTexts}
    \cup {Box("obj-1", "newobj", None, 2, 8), Box("obj-1", "newobj", Some(c_mc_dac_plain), 0, 1)}

\* the boxes of the analysed patches
AnalysedBoxes ==
    {Box("obj-1", "newobj", Some(text), 2, 8) :
        text \in {c_panoramix, c_encoder, c_decoder, c_vbap, c_viewer, c_blank, c_foo,
                  c_pan, c_dac, c_mc_dac}}
    \cup {Box("obj-1", "message", None, 2, 8)}

ConvertInit ==
    /\ \/ \E fn \in {"SpatialConverter::convert", "AudioIOConverter::convert",
                     "MultichannelConverter::convert"} :
            \E content \in ConvertBoxes : call = [fn |-> fn, content |-> content]
       \/ \E boxes \in SeqsUpTo(AnalysedBoxes, MaxConvertBoxes) :
            call = [fn |-> "analyze_spatial_objects", boxes |-> boxes]
    /\ ConverterLocals

\* spatial.rs 11-33
SpatialConvert ==
    /\ pc = "converter_call"
    /\ call.fn = "SpatialConverter::convert"
    /\ Returns(SpatialConverter_convert(call.content))

\* audio_io.rs 11-32
AudioIOConvert ==
    /\ pc = "converter_call"
    /\ call.fn = "AudioIOConverter::convert"
    /\ Returns(AudioIOConverter_convert(call.content, overflow_checks))

\* multichannel.rs 11-33
MultichannelConvert ==
    /\ pc = "converter_call"
    /\ call.fn = "MultichannelConverter::convert"
    /\ Returns(MultichannelConverter_convert(call.content, overflow_checks))

\* spatial_analysis.rs 35-105
AnalyzeSpatialObjects ==
    /\ pc = "converter_call"
    /\ call.fn = "analyze_spatial_objects"
    /\ Returns(Ok(analyze_spatial_objects(call.boxes)))

ConvertNext ==
    SpatialConvert \/ AudioIOConvert \/ MultichannelConvert \/ AnalyzeSpatialObjects

SpecConvert == ConvertInit /\ [][ConvertNext]_vars

----------------------------------------------------------------------------
(* Claims on the object converters *)

Converters ==
    {"SpatialConverter::convert", "AudioIOConverter::convert",
     "MultichannelConverter::convert"}

Converted == pc = "converter_returned" /\ call.fn \in Converters
Analysed == pc = "converter_returned" /\ call.fn = "analyze_spatial_objects"

\* the first token of the text of a box, <<>> when there is none
FirstToken(content) ==
    LET tokens == split_whitespace(unwrap_or_empty(content.text))
    IN  IF tokens = <<>> THEN <<>> ELSE tokens[1]

\* the names each converter has a conversion for
Recognised(fn) ==
    IF fn = "SpatialConverter::convert"
    THEN {n_pan, n_pan2, n_pan4, n_pan8, n_stereo, n_matrix, p_panoramix, n_spat5_pan,
          n_spat5_stereo, n_hoa_encoder, n_hoa_decoder, n_hoa_rotate, n_vbap, n_spat5_reverb,
          n_spat5_early}
    ELSE IF fn = "AudioIOConverter::convert"
    THEN {p_dac, p_adc, n_ezdac, n_ezadc, n_out, n_in}
    ELSE {n_mc_pack, n_mc_unpack, p_mc_dac, p_mc_adc, n_mc_live_gain}

Placeholders == {"UnknownSpatial", "SPAT5_Placeholder", "UnknownIO", "UnknownMC"}

\* a returned object is a placeholder exactly for a first token that is not
\* recognised, and then its argument is that token
PlaceholderForUnknown ==
    LET name == FirstToken(call.content)
    IN  /\ name # <<>> /\ name \notin Recognised(call.fn) =>
            /\ result.val.class_name \in Placeholders
            /\ result.val.args = <<SCString(name)>>
        /\ name \in Recognised(call.fn) => result.val.class_name \notin Placeholders

\* analyze_spatial_objects adds one object for each box whose first token
\* starts with 'spat5' and none for any other box
ObjectsOnlyForSpat5 ==
    LET spat5 == {i \in 1..Len(call.boxes) : starts_with(FirstToken(call.boxes[i]), p_spat5)}
    IN  /\ Len(result.val) = Cardinality(spat5)
        /\ \A i \in 1..Len(call.boxes) :
            i \notin spat5 => analyze_spatial_objects(<<call.boxes[i]>>) = <<>>

\* C22: the three converters return Ok for every box, with a placeholder
\* carrying the original name for a first token that is not recognised, and
\* analyze_spatial_objects returns Ok for every patch, adding no spatial
\* object for a box whose first token does not start with 'spat5'
C22_NoBoxFails ==
    /\ Converted => ret = "returned" /\ result.ok /\ PlaceholderForUnknown
    /\ Analysed => ret = "returned" /\ result.ok /\ ObjectsOnlyForSpat5

\* a token of the text of the box spells i32::MIN
NamesMinChannel ==
    \E i \in 1..Len(split_whitespace(unwrap_or_empty(call.content.text))) :
        LET n == parse_i32_full(split_whitespace(unwrap_or_empty(call.content.text))[i])
        IN  n.some /\ n.val = i32_MIN

\* the case: in a build with overflow checks AudioIOConverter::convert
\* panics on 'dac~ -2147483648'
C22_DacPanics ==
    /\ Converted
    /\ call.fn = "AudioIOConverter::convert"
    /\ call.content.text = Some(c_dac_min)
    /\ overflow_checks
    /\ ret = "panic"

\* the case: MultichannelConverter::convert panics on a channel list that
\* holds i32::MIN
C22_McAdcPanics ==
    /\ Converted
    /\ call.fn = "MultichannelConverter::convert"
    /\ call.content.text = Some(c_mc_adc_min)
    /\ ret = "panic"

\* what the code does: a converter fails only by the panic of `ch - 1` on
\* i32::MIN in a build with overflow checks; every other call returns Ok,
\* with a placeholder exactly for the names that are not recognised, and
\* SpatialConverter::convert and analyze_spatial_objects never fail
C22_FailsOnlyOnOverflow ==
    /\ Converted =>
        /\ ret \in {"returned", "panic"}
        /\ ret = "panic" =>
            /\ overflow_checks
            /\ NamesMinChannel
            /\ call.fn # "SpatialConverter::convert"
            /\ FirstToken(call.content) \in {p_dac, p_adc, n_out, n_in, p_mc_dac, p_mc_adc}
        /\ ret = "returned" => result.ok /\ PlaceholderForUnknown
    /\ Analysed => ret = "returned" /\ result.ok /\ ObjectsOnlyForSpat5

\* the case: a name no converter knows became a placeholder with the name
C22_PlaceholderReached ==
    /\ Converted
    /\ call.content.text = Some(c_foo)
    /\ call.fn = "SpatialConverter::convert"
    /\ result.val.class_name = "UnknownSpatial"
    /\ result.val.args = <<SCString(<<"f", "o", "o", "~">>)>>

\* the case: the analysis of a patch with a SPAT5 box and another box
C22_AnalysisReached ==
    /\ Analysed
    /\ Len(call.boxes) = 2
    /\ call.boxes[1].text = Some(c_foo)
    /\ call.boxes[2].text = Some(c_viewer)
    /\ Len(result.val) = 1
    /\ result.val[1].object_type.tag = "Generic"

============================================================================
